---- MODULE Spec2Model ----
(***************************************************************************)
(* Model of the token-targeted web crawler of Logos-Flux/mnemo             *)
(* (packages/core/src/adapters/url-adapter): the URL normalizer and        *)
(* filter, the link scorer, the robots.txt checker and the crawl loop of   *)
(* TokenTargetCrawler.                                                     *)
(*                                                                         *)
(* Strings the code inspects character by character (URL paths, robots     *)
(* patterns, user agents) are sequences of one-character strings.  A URL   *)
(* string is the record of the parts the WHATWG URL parser gives it; a     *)
(* string `new URL` rejects has protocol "" and keeps its text in host.    *)
(***************************************************************************)
EXTENDS Integers, Sequences, FiniteSets, TLC

\* ------------------------------------------------------------------------
\* String helpers (String.prototype.*) on sequences of characters
\* ------------------------------------------------------------------------

UpperChars == <<"A","B","C","D","E","F","G","H","I","J","K","L","M",
                "N","O","P","Q","R","S","T","U","V","W","X","Y","Z">>

LowerChars == <<"a","b","c","d","e","f","g","h","i","j","k","l","m",
                "n","o","p","q","r","s","t","u","v","w","x","y","z">>

toLowerChar(c) ==
  IF \E i \in 1..Len(UpperChars) : UpperChars[i] = c
  THEN LowerChars[CHOOSE i \in 1..Len(UpperChars) : UpperChars[i] = c]
  ELSE c

toLowerCase(s) == [i \in 1..Len(s) |-> toLowerChar(s[i])]

startsWith(s, p) == Len(p) <= Len(s) /\ SubSeq(s, 1, Len(p)) = p

endsWith(s, p) == Len(p) <= Len(s) /\ SubSeq(s, Len(s) - Len(p) + 1, Len(s)) = p

includes(s, p) ==
  \E i \in 0..(Len(s) - Len(p)) : SubSeq(s, i + 1, i + Len(p)) = p

\* index of the last "/" of s, 0 when there is none
lastSlash(s) ==
  IF \E i \in 1..Len(s) : s[i] = "/"
  THEN CHOOSE i \in 1..Len(s) : s[i] = "/" /\ \A j \in (i+1)..Len(s) : s[j] # "/"
  ELSE 0

\* s.split('/').filter(Boolean).length: the number of non-empty segments
segmentCount(s) ==
  Cardinality({i \in 1..Len(s) : s[i] # "/" /\ (i = 1 \/ s[i-1] = "/")})

\* ------------------------------------------------------------------------
\* URL strings
\* ------------------------------------------------------------------------

\* the string `text`, which new URL() rejects (relative or malformed)
NotAUrl(text) ==
  [protocol |-> "", host |-> text, pathname |-> <<>>, search |-> <<>>, hash |-> ""]

\* the href protocol//host pathname ?search #hash
Url(protocol, host, pathname, search, hash) ==
  [protocol |-> protocol, host |-> host, pathname |-> pathname,
   search |-> search, hash |-> hash]

\* new URL(s) succeeds
parses(s) == s.protocol # ""

\* new URL(s).origin
origin(s) ==
  IF s.protocol \in {"http:", "https:"} THEN <<s.protocol, s.host>> ELSE <<"null", "">>

RECURSIVE searchLength(_)
searchLength(q) ==
  IF q = <<>> THEN 0
  ELSE 1 + Len(Head(q).name) + 1 + Len(Head(q).value) + searchLength(Tail(q))

\* s.length of the href: "?a=1&b=2" costs one separator per parameter
hrefLength(s) ==
  IF ~parses(s) THEN Len(s.host)
  ELSE Len(s.protocol) + 2 + Len(s.host) + Len(s.pathname) + searchLength(s.search)
       + (IF s.hash = "" THEN 0 ELSE 1 + Len(s.hash))

\* ------------------------------------------------------------------------
\* link-scorer.ts
\* ------------------------------------------------------------------------

docPatterns ==
  { <<"/", "d", "o", "c", "s">>, <<"/", "g", "u", "i", "d", "e">>,
    <<"/", "r", "e", "f", "e", "r", "e", "n", "c", "e">>, <<"/", "a", "p", "i">>,
    <<"/", "t", "u", "t", "o", "r", "i", "a", "l">>, <<"/", "l", "e", "a", "r", "n">>,
    <<"/", "m", "a", "n", "u", "a", "l">>, <<"/", "h", "a", "n", "d", "b", "o", "o", "k">>,
    <<"/", "h", "e", "l", "p">>, <<"/", "f", "a", "q">>,
    <<"/", "g", "e", "t", "t", "i", "n", "g", "-", "s", "t", "a", "r", "t", "e", "d">>, <<"/", "q", "u", "i", "c", "k", "s", "t", "a", "r", "t">> }

skipPatterns ==
  { <<"/", "l", "o", "g", "i", "n">>, <<"/", "s", "i", "g", "n", "u", "p">>,
    <<"/", "a", "u", "t", "h">>, <<"/", "a", "d", "m", "i", "n">>,
    <<"/", "c", "a", "r", "t">>, <<"/", "c", "h", "e", "c", "k", "o", "u", "t">>,
    <<"/", "a", "c", "c", "o", "u", "n", "t">>, <<"/", "s", "e", "t", "t", "i", "n", "g", "s">>,
    <<"/", "p", "r", "o", "f", "i", "l", "e">>, <<"/", "s", "e", "a", "r", "c", "h">>,
    <<"/", "t", "a", "g", "/">>, <<"/", "c", "a", "t", "e", "g", "o", "r", "y", "/">>,
    <<"/", "a", "u", "t", "h", "o", "r", "/">>, <<"/", "p", "a", "g", "e", "/">> }

skipExtensions ==
  { <<".", "z", "i", "p">>, <<".", "t", "a", "r">>, <<".", "g", "z">>,
    <<".", "e", "x", "e">>, <<".", "d", "m", "g">>, <<".", "p", "k", "g">>,
    <<".", "d", "e", "b">>, <<".", "r", "p", "m">>, <<".", "m", "p", "3">>,
    <<".", "m", "p", "4">>, <<".", "a", "v", "i">>, <<".", "m", "o", "v">>,
    <<".", "j", "p", "g">>, <<".", "j", "p", "e", "g">>, <<".", "p", "n", "g">>,
    <<".", "g", "i", "f">>, <<".", "s", "v", "g">>, <<".", "i", "c", "o">> }

docExtensions ==
  { <<".", "h", "t", "m", "l">>, <<".", "h", "t", "m">>, <<".", "m", "d">>, <<".", "t", "x", "t">> }

staticPaths ==
  { <<"/", "s", "t", "a", "t", "i", "c", "/">>, <<"/", "a", "s", "s", "e", "t", "s", "/">>,
    <<"/", "d", "i", "s", "t", "/">>, <<"/", "b", "u", "i", "l", "d", "/">>,
    <<"/", "_", "n", "e", "x", "t", "/">>, <<"/", "n", "o", "d", "e", "_", "m", "o", "d", "u", "l", "e", "s", "/">> }

trackingParams ==
  { "utm_source", "utm_medium", "utm_campaign", "utm_term", "utm_content",
    "ref", "source", "campaign", "fbclid", "gclid" }

\* sourceUrlObj.pathname.split('/').slice(0, -1).join('/')
sourcePathOf(pathname) ==
  IF lastSlash(pathname) = 0 THEN <<>> ELSE SubSeq(pathname, 1, lastSlash(pathname) - 1)

\* linkUrl.searchParams.toString().split('&').length
paramCount(search) == IF Len(search) = 0 THEN 1 ELSE Len(search)

\* a score that is returned as the sum left it
clampSkipped(score) == score

\* Math.max(0, Math.min(100, score))
clamp(score) == IF score < 0 THEN 0 ELSE IF score > 100 THEN 100 ELSE score

scoreLink(link, sourceUrl) ==
  IF ~parses(link) \/ ~parses(sourceUrl) THEN clamp(10)
  ELSE
    LET pathname == toLowerCase(link.pathname)
        sourcePath == sourcePathOf(sourceUrl.pathname)
    IN clamp(
         50
         + (IF origin(link) = origin(sourceUrl) THEN 20 ELSE 0)
         + (IF sourcePath # <<>> /\ startsWith(link.pathname, sourcePath) THEN 10 ELSE 0)
         + (IF \E p \in docPatterns : includes(pathname, p) THEN 15 ELSE 0)
         - (IF \E p \in skipPatterns : includes(pathname, p) THEN 30 ELSE 0)
         - (IF link.pathname = sourceUrl.pathname /\ link.hash # "" THEN 40 ELSE 0)
         - (IF hrefLength(link) > 200 THEN 10 ELSE 0)
         - (IF paramCount(link.search) > 3 THEN 15 ELSE 0)
         + (IF segmentCount(link.pathname) <= 3 THEN 5 ELSE 0)
         - (IF \E ext \in skipExtensions : endsWith(pathname, ext) THEN 50 ELSE 0)
         + (IF \E ext \in docExtensions : endsWith(pathname, ext) THEN 5 ELSE 0))

shouldSkipUrl(url) ==
  IF ~parses(url) THEN TRUE
  ELSE IF url.protocol \notin {"http:", "https:"} THEN TRUE
  ELSE IF \E p \in staticPaths : includes(url.pathname, p) THEN TRUE
  ELSE FALSE

normalizeUrl(url) ==
  IF ~parses(url) THEN url
  ELSE
    [url EXCEPT
       !.search = SelectSeq(url.search, LAMBDA kv : kv.name \notin trackingParams),
       !.hash = "",
       !.pathname =
         IF url.pathname # <<"/">> /\ ~includes(url.pathname, <<".">>)
              /\ endsWith(url.pathname, <<"/">>)
         THEN SubSeq(url.pathname, 1, Len(url.pathname) - 1)
         ELSE url.pathname]

\* ------------------------------------------------------------------------
\* robots.ts
\* ------------------------------------------------------------------------

\* the regular expression pathMatches builds, applied at the start of s:
\* every character is literal ("$" too: the escape list holds it), "*" is ".*"
RECURSIVE regexMatchesAtStart(_, _)
regexMatchesAtStart(s, pattern) ==
  IF pattern = <<>> THEN TRUE
  ELSE IF Head(pattern) = "*"
       THEN \E k \in 0..Len(s) : regexMatchesAtStart(SubSeq(s, k + 1, Len(s)), Tail(pattern))
       ELSE s # <<>> /\ Head(s) = Head(pattern) /\ regexMatchesAtStart(Tail(s), Tail(pattern))

\* RobotsChecker.pathMatches: a pattern that ends in "$" is left without the
\* "^" anchor, and its "$" was escaped by the first replace
pathMatches(pathname, pattern) ==
  IF pattern = <<>> THEN FALSE
  ELSE IF pattern[Len(pattern)] = "$"
       THEN \E i \in 1..(Len(pathname) + 1) :
              regexMatchesAtStart(SubSeq(pathname, i, Len(pathname)), pattern)
       ELSE regexMatchesAtStart(pathname, pattern)

\* RobotsChecker.parse over the lines of the body, each line already split at
\* its first colon: directive is the lower-cased name ("" for a blank line, a
\* comment or a line with no colon), value the trimmed rest
RECURSIVE parseLines(_, _, _)
parseLines(lines, rules, currentRule) ==
  IF lines = <<>> THEN rules \o currentRule
  ELSE
    LET line == Head(lines)
        rest == Tail(lines)
    IN CASE line.directive = "user-agent" ->
              parseLines(rest, rules \o currentRule,
                         <<[userAgent |-> line.value, allow |-> <<>>, disallow |-> <<>>]>>)
         [] line.directive = "allow" /\ currentRule # <<>> /\ line.value # <<>> ->
              parseLines(rest, rules,
                         <<[currentRule[1] EXCEPT !.allow = Append(@, line.value)]>>)
         [] line.directive = "disallow" /\ currentRule # <<>> /\ line.value # <<>> ->
              parseLines(rest, rules,
                         <<[currentRule[1] EXCEPT !.disallow = Append(@, line.value)]>>)
         [] OTHER -> parseLines(rest, rules, currentRule)

parse(text) == parseLines(text, <<>>, <<>>)

\* new RobotsChecker(origin, userAgent)
NewRobotsChecker == [rules |-> <<>>, loaded |-> FALSE]

\* a load that blocks everything when robots.txt could not be fetched
loadFailClosed(checker, response) ==
  IF checker.loaded THEN checker
  ELSE [rules |-> IF response.status >= 200 /\ response.status <= 299
                  THEN parse(response.text)
                  ELSE <<[userAgent |-> <<"*">>, allow |-> <<>>, disallow |-> <<<<"/">>>>]>>,
        loaded |-> TRUE]

\* RobotsChecker.load given the response to GET origin/robots.txt:
\* status 0 stands for a fetch that threw (network error, timeout)
load(checker, response) ==
  IF checker.loaded THEN checker
  ELSE [rules |-> IF response.status >= 200 /\ response.status <= 299
                  THEN parse(response.text) ELSE checker.rules,
        loaded |-> TRUE]

applies(rule, userAgent) ==
  \/ rule.userAgent = <<"*">>
  \/ includes(toLowerCase(userAgent), toLowerCase(rule.userAgent))

\* RobotsChecker.isAllowed for a URL that parses
isAllowed(checker, userAgent, url) ==
  IF ~checker.loaded THEN TRUE
  ELSE
    ~ \E r \in 1..Len(checker.rules) :
        /\ applies(checker.rules[r], userAgent)
        /\ \E d \in 1..Len(checker.rules[r].disallow) :
             /\ pathMatches(url.pathname, checker.rules[r].disallow[d])
             /\ ~ \E a \in 1..Len(checker.rules[r].allow) :
                    /\ pathMatches(url.pathname, checker.rules[r].allow[a])
                    /\ Len(checker.rules[r].allow[a]) > Len(checker.rules[r].disallow[d])

\* ------------------------------------------------------------------------
\* The crawled web: the strings and responses the crawl is run against
\* ------------------------------------------------------------------------

P_root == <<"/">>
P_docs == <<"/", "d", "o", "c", "s">>
P_docsSlash == <<"/", "d", "o", "c", "s", "/">>
P_guide == <<"/", "d", "o", "c", "s", "/", "g", "u", "i", "d", "e", ".", "h", "t", "m", "l">>
P_login == <<"/", "l", "o", "g", "i", "n">>
P_cartZip == <<"/", "c", "a", "r", "t", ".", "z", "i", "p">>
P_api == <<"/", "a", "p", "i">>
P_static == <<"/", "s", "t", "a", "t", "i", "c", "/", "a", "p", "p", ".", "j", "s">>
P_private == <<"/", "p", "r", "i", "v", "a", "t", "e">>
P_robotsTxt == <<"/", "r", "o", "b", "o", "t", "s", ".", "t", "x", "t">>
UA_test == <<"T", "e", "s", "t", "B", "o", "t", "/", "1", ".", "0">>
UA_star == <<"*">>
UA_other == <<"o", "t", "h", "e", "r", "b", "o", "t">>

L_home == Url("https:", "a.com", P_root, <<>>, "")
L_docsSlash == Url("https:", "a.com", P_docsSlash, <<>>, "")
L_docsFrag == Url("https:", "a.com", P_docs, <<>>, "intro")
L_guide == Url("https:", "a.com", P_guide, <<[name |-> "utm_source", value |-> "x"]>>, "")
L_login == Url("https:", "a.com", P_login, <<>>, "")
L_cartZip == Url("https:", "a.com", P_cartZip, <<>>, "")
L_private == Url("https:", "a.com", P_private, <<>>, "")
L_static == Url("https:", "a.com", P_static, <<>>, "")
L_ext == Url("https:", "b.org", P_api, <<>>, "")
L_mail == Url("mailto:", "", <<"x">>, <<>>, "")
L_rel == NotAUrl("../up")
L_bad == NotAUrl("not-a-url")

\* config.seedUrls
SeedLists ==
  { <<L_home>>, <<L_docsSlash, L_docsFrag>>, <<L_private, L_ext>>, <<L_bad>> }

\* extracted.links of a fetched page
LinkLists ==
  { <<>>,
    <<L_ext, L_docsSlash, L_docsFrag, L_static, L_rel, L_cartZip>>,
    <<L_guide, L_private, L_home, L_mail, L_login>> }

\* extracted.text.length of a fetched page
TextLengths == {0, 240}

\* the message of the exception loadPage throws
FailureReasons == {"HTTP 500: Internal Server Error", "No text content found in PDF"}

\* the body of a robots.txt that answers 200
RobotsText ==
  << [directive |-> "", value |-> <<>>],
     [directive |-> "user-agent", value |-> UA_star],
     [directive |-> "disallow", value |-> P_private],
     [directive |-> "user-agent", value |-> UA_other],
     [directive |-> "disallow", value |-> P_root] >>

\* the responses to GET origin/robots.txt: thrown, 404, 200
RobotsResponses ==
  { [status |-> 0, text |-> <<>>],
    [status |-> 404, text |-> <<>>],
    [status |-> 200, text |-> RobotsText] }

MaxPagesCap == 2

MaxSubrequestsCap == 2

\* the CrawlConfig values the crawl is run with; maxSubrequests is {} when
\* undefined and {n} when set
Configs ==
  [seedUrls : SeedLists,
   targetTokens : {1, 100},
   minTokensPerPage : {0, 3},
   maxPages : 0..MaxPagesCap,
   sameDomainOnly : BOOLEAN,
   respectRobotsTxt : BOOLEAN,
   maxSubrequests : {{}} \cup {{n} : n \in 0..MaxSubrequestsCap}]

\* the userAgent the crawler is constructed with
userAgent == UA_test

\* ------------------------------------------------------------------------
\* crawler.ts: TokenTargetCrawler
\* ------------------------------------------------------------------------

VARIABLES
  config,           \* this.config
  pc,               \* where crawl() is: "new", "loop", "robots", "robotsLoading"
                    \* (awaiting checker.load()), "fetch", "loading" (awaiting
                    \* loadPage), "delay", "done" (returned) or "rejected" (threw)
  queue,            \* this.queue
  visited,          \* this.visited
  loadedContent,    \* this.loadedContent
  errors,           \* this.errors
  currentTokens,    \* this.currentTokens
  subrequestCount,  \* this.subrequestCount
  robotsCache,      \* this.robotsCache: origin -> RobotsChecker
  next,             \* the entry the current iteration popped
  result,           \* <<>> until crawl() returns, then <<the LoadedSource>>
  fetched,          \* history: the URLs loadPage called fetch() for, in order
  robotsFetched,    \* history: the origins whose robots.txt was requested
  inFlight,         \* the network requests sent and not yet settled
  input,            \* the arguments of a function applied on its own
  output            \* what that function returned

vars == <<config, pc, queue, visited, loadedContent, errors, currentTokens,
          subrequestCount, robotsCache, next, result, fetched, robotsFetched,
          inFlight, input, output>>

NoEntry == [url |-> NotAUrl(""), score |-> 0, depth |-> 0, referrer |-> NotAUrl("")]

Init ==
  /\ config \in Configs
  /\ pc = "new"
  /\ queue = <<>>
  /\ visited = {}
  /\ loadedContent = <<>>
  /\ errors = <<>>
  /\ currentTokens = 0
  /\ subrequestCount = 0
  /\ robotsCache = <<>>
  /\ next = NoEntry
  /\ result = <<>>
  /\ fetched = <<>>
  /\ robotsFetched = <<>>
  /\ inFlight = <<>>
  /\ input = <<>>
  /\ output = <<>>

\* crawl(): the seed loop
seedQueue(seedUrls) ==
  [i \in 1..Len(seedUrls) |->
     [url |-> normalizeUrl(seedUrls[i]), score |-> 100, depth |-> 0,
      referrer |-> NotAUrl("")]]

\* the while condition with the page cap left out
LoopConditionNoPageCap ==
  /\ currentTokens < config.targetTokens
  /\ Len(queue) > 0
  /\ (config.maxSubrequests = {} \/ \A m \in config.maxSubrequests : subrequestCount < m)

\* the while condition with the subrequest cap left out
LoopConditionNoSubrequestCap ==
  /\ currentTokens < config.targetTokens
  /\ Len(queue) > 0
  /\ Len(loadedContent) < config.maxPages

\* the while condition with the token target left out
LoopConditionNoTarget ==
  /\ Len(queue) > 0
  /\ Len(loadedContent) < config.maxPages
  /\ (config.maxSubrequests = {} \/ \A m \in config.maxSubrequests : subrequestCount < m)

\* the while condition of crawl()
LoopCondition ==
  /\ currentTokens < config.targetTokens
  /\ Len(queue) > 0
  /\ Len(loadedContent) < config.maxPages
  /\ (config.maxSubrequests = {} \/ \A m \in config.maxSubrequests : subrequestCount < m)

\* this.queue.sort((a, b) => b.score - a.score): Array.prototype.sort is stable
RECURSIVE insertByScore(_, _)
insertByScore(sorted, e) ==
  IF sorted = <<>> THEN <<e>>
  ELSE IF Head(sorted).score >= e.score
       THEN <<Head(sorted)>> \o insertByScore(Tail(sorted), e)
       ELSE <<e>> \o sorted

\* a queue that is popped in insertion order
sortByScoreSkipped(q) == q

\* a sort that is not stable: where equal scores land differs between runs
RECURSIVE insertAmongTies(_, _, _)
insertAmongTies(sorted, e, first) ==
  IF sorted = <<>> THEN <<e>>
  ELSE IF Head(sorted).score > e.score \/ (~first /\ Head(sorted).score = e.score)
       THEN <<Head(sorted)>> \o insertAmongTies(Tail(sorted), e, first)
       ELSE <<e>> \o sorted

RECURSIVE sortTies(_, _)
sortTies(q, first) ==
  IF q = <<>> THEN <<>>
  ELSE insertAmongTies(sortTies(SubSeq(q, 1, Len(q) - 1), first), q[Len(q)], first)

sortByScoreUnstable(q) == sortTies(q, output.running = 2)

RECURSIVE sortByScore(_)
sortByScore(q) ==
  IF q = <<>> THEN <<>>
  ELSE insertByScore(sortByScore(SubSeq(q, 1, Len(q) - 1)), q[Len(q)])

\* a visited set that is never consulted
visitedHasNever(url) == FALSE

\* this.visited.has(url)
visitedHas(url) == url \in visited

\* this.queue.some((q) => q.url === resolved)
queueHas(q, resolved) == \E i \in 1..Len(q) : q[i].url = resolved

\* Math.ceil(text.length / 4)
estimateTokens(length) == (length + 3) \div 4

\* a crawl that accepts every fetched page
meetsMinTokensAlways(tokenEstimate) == TRUE

\* result.tokenEstimate >= this.config.minTokensPerPage
meetsMinTokens(tokenEstimate) == tokenEstimate >= config.minTokensPerPage

\* a crawl that follows links to any origin
crossOriginSkippedNever(resolved, sourceUrl) == FALSE

\* queueLinks: this.config.sameDomainOnly && linkOrigin !== sourceOrigin
crossOriginSkipped(resolved, sourceUrl) ==
  config.sameDomainOnly /\ origin(resolved) # origin(sourceUrl)

\* a crawl that queues every link it finds
queueLinksUnfiltered(links, sourceUrl, sourceDepth, q) ==
  q \o [i \in 1..Len(links) |->
          [url |-> normalizeUrl(links[i]), score |-> scoreLink(normalizeUrl(links[i]), sourceUrl),
           depth |-> sourceDepth + 1, referrer |-> sourceUrl]]

\* queueLinks: q is this.queue as the loop over links has left it so far
RECURSIVE queueLinks(_, _, _, _)
queueLinks(links, sourceUrl, sourceDepth, q) ==
  IF links = <<>> THEN q
  ELSE
    LET link == Head(links)
        resolved == normalizeUrl(link)
        score == scoreLink(resolved, sourceUrl)
        skip == \/ shouldSkipUrl(link)
                \/ visitedHas(resolved)
                \/ queueHas(q, resolved)
                \/ crossOriginSkipped(resolved, sourceUrl)
                \/ score < 20
    IN queueLinks(Tail(links), sourceUrl, sourceDepth,
                  IF skip THEN q
                  ELSE Append(q, [url |-> resolved, score |-> score,
                                  depth |-> sourceDepth + 1, referrer |-> sourceUrl]))

\* the flag computed with > in place of >=
stoppedBySubrequestLimitStrict ==
  config.maxSubrequests # {} /\ \A m \in config.maxSubrequests : subrequestCount > m

\* metadata.stoppedBySubrequestLimit of buildResult
stoppedBySubrequestLimit ==
  config.maxSubrequests # {} /\ \A m \in config.maxSubrequests : subrequestCount >= m

buildResult ==
  [totalTokens |-> currentTokens,
   fileCount |-> Len(loadedContent),
   files |-> loadedContent,
   pagesLoaded |-> Len(loadedContent),
   pagesSkipped |-> Cardinality(visited) - Len(loadedContent),
   pagesInQueue |-> Len(queue),
   errors |-> IF Len(errors) > 0 THEN <<errors>> ELSE <<>>,
   targetTokens |-> config.targetTokens,
   actualTokens |-> currentTokens,
   subrequestsUsed |-> subrequestCount,
   stoppedBySubrequestLimit |-> stoppedBySubrequestLimit]

\* crawl(): the seed URLs are pushed, normalized, with no check
Seed ==
  /\ pc = "new"
  /\ queue' = queue \o seedQueue(config.seedUrls)
  /\ pc' = "loop"
  /\ UNCHANGED <<inFlight, input, output, config, visited, loadedContent, errors, currentTokens,
                 subrequestCount, robotsCache, next, result, fetched, robotsFetched>>

\* one pass of the loop head: sort, shift, and an entry already visited is dropped
PopVisited ==
  /\ pc = "loop"
  /\ LoopCondition
  /\ LET sorted == sortByScore(queue)
     IN /\ visitedHas(Head(sorted).url)
        /\ next' = Head(sorted)
        /\ queue' = Tail(sorted)
  /\ pc' = "loop"
  /\ UNCHANGED <<inFlight, input, output, config, visited, loadedContent, errors, currentTokens,
                 subrequestCount, robotsCache, result, fetched, robotsFetched>>

\* one pass of the loop head: sort, shift, mark visited before any I/O
Pop ==
  /\ pc = "loop"
  /\ LoopCondition
  /\ LET sorted == sortByScore(queue)
     IN /\ ~visitedHas(Head(sorted).url)
        /\ next' = Head(sorted)
        /\ queue' = Tail(sorted)
        /\ visited' = visited \cup {Head(sorted).url}
  /\ pc' = IF config.respectRobotsTxt THEN "robots" ELSE "fetch"
  /\ UNCHANGED <<inFlight, input, output, config, loadedContent, errors, currentTokens,
                 subrequestCount, robotsCache, result, fetched, robotsFetched>>

\* the loop condition fails: crawl() returns buildResult()
Return ==
  /\ pc = "loop"
  /\ ~LoopCondition
  /\ result' = <<buildResult>>
  /\ pc' = "done"
  /\ UNCHANGED <<inFlight, input, output, config, queue, visited, loadedContent, errors, currentTokens,
                 subrequestCount, robotsCache, next, fetched, robotsFetched>>

\* a crawl that asks robots.txt and fetches the page whatever the answer
afterCheckRobotsIgnored(allowed) ==
  /\ pc' = "fetch"
  /\ UNCHANGED errors

\* crawl() after checkRobots answered
afterCheckRobots(allowed) ==
  IF allowed
  THEN /\ pc' = "fetch"
       /\ UNCHANGED errors
  ELSE /\ errors' = Append(errors, [url |-> next.url, error |-> "Blocked by robots.txt"])
       /\ pc' = "loop"

\* checkRobots: new URL(url) throws, outside any try, and crawl() rejects
CheckRobotsThrows ==
  /\ pc = "robots"
  /\ ~parses(next.url)
  /\ pc' = "rejected"
  /\ UNCHANGED <<inFlight, input, output, config, queue, visited, loadedContent, errors, currentTokens,
                 subrequestCount, robotsCache, next, result, fetched, robotsFetched>>

\* the request RobotsChecker.load sends: GET origin/robots.txt
robotsRequest(o) == [kind |-> "robots", url |-> Url(o[1], o[2], P_robotsTxt, <<>>, "")]

\* the request loadPage sends
pageRequest(url) == [kind |-> "page", url |-> url]

\* the request r settles
settle(r) == SelectSeq(inFlight, LAMBDA x : x # r)

\* a robots cache that is never consulted
robotsCacheHasNever(o) == FALSE

\* this.robotsCache.has(origin)
robotsCacheHas(o) == o \in DOMAIN robotsCache

\* checkRobots for an origin with no checker yet: checker.load() sends its
\* request and crawl() is suspended on it
RobotsRequest ==
  /\ pc = "robots"
  /\ parses(next.url)
  /\ ~robotsCacheHas(origin(next.url))
  /\ inFlight' = Append(inFlight, robotsRequest(origin(next.url)))
  /\ robotsFetched' = Append(robotsFetched, origin(next.url))
  /\ pc' = "robotsLoading"
  /\ UNCHANGED <<input, output, config, queue, visited, loadedContent, errors,
                 currentTokens, subrequestCount, robotsCache, next, result, fetched>>

\* checker.load() settles on `response`, the checker is cached and asked
CheckRobotsLoadWith(response) ==
  /\ pc = "robotsLoading"
  /\ LET checker == load(NewRobotsChecker, response)
     IN /\ robotsCache' = [o \in DOMAIN robotsCache \cup {origin(next.url)} |->
                             IF o = origin(next.url) THEN checker ELSE robotsCache[o]]
        /\ afterCheckRobots(isAllowed(checker, userAgent, next.url))
  /\ inFlight' = settle(robotsRequest(origin(next.url)))
  /\ UNCHANGED <<input, output, config, queue, visited, loadedContent, currentTokens,
                 subrequestCount, next, result, fetched, robotsFetched>>

\* checker.load() settles on whatever the origin answers
CheckRobotsLoad == \E response \in RobotsResponses : CheckRobotsLoadWith(response)

\* checkRobots for an origin whose checker is cached
CheckRobotsCached ==
  /\ pc = "robots"
  /\ parses(next.url)
  /\ robotsCacheHas(origin(next.url))
  /\ afterCheckRobots(isAllowed(robotsCache[origin(next.url)], userAgent, next.url))
  /\ UNCHANGED <<inFlight, input, output, config, queue, visited, loadedContent, currentTokens,
                 subrequestCount, robotsCache, next, result, fetched, robotsFetched>>

\* a loop that never delays
afterPageNoDelay(q) == "loop"

\* crawl() after the try/catch: the delay is awaited unless the queue is empty
afterPage(q) == IF Len(q) > 0 THEN "delay" ELSE "loop"

\* a loop that does not await loadPage: the request is sent and the loop goes on
PageRequestNotAwaited ==
  /\ pc = "fetch"
  /\ next.url.protocol \in {"http:", "https:"}
  /\ inFlight' = Append(inFlight, pageRequest(next.url))
  /\ fetched' = Append(fetched, next.url)
  /\ pc' = "loop"
  /\ UNCHANGED <<input, output, config, queue, visited, loadedContent, errors,
                 currentTokens, subrequestCount, robotsCache, next, result,
                 robotsFetched>>

\* loadPage sends its request and crawl() is suspended on it
PageRequest ==
  /\ pc = "fetch"
  /\ next.url.protocol \in {"http:", "https:"}
  /\ inFlight' = Append(inFlight, pageRequest(next.url))
  /\ fetched' = Append(fetched, next.url)
  /\ pc' = "loading"
  /\ UNCHANGED <<input, output, config, queue, visited, loadedContent, errors,
                 currentTokens, subrequestCount, robotsCache, next, result,
                 robotsFetched>>

\* loadPage returns a page of `length` characters with `links`: the page is
\* counted, then accepted or discarded
FetchOkWith(length, links) ==
  /\ pc = "loading"
  /\ LET tokenEstimate == estimateTokens(length)
     IN IF meetsMinTokens(tokenEstimate)
        THEN /\ loadedContent' = Append(loadedContent,
                                        [path |-> next.url, tokenEstimate |-> tokenEstimate])
             /\ currentTokens' = currentTokens + tokenEstimate
             /\ queue' = queueLinks(links, next.url, next.depth, queue)
        ELSE UNCHANGED <<loadedContent, currentTokens, queue>>
  /\ subrequestCount' = subrequestCount + 1
  /\ inFlight' = settle(pageRequest(next.url))
  /\ pc' = afterPage(queue')
  /\ UNCHANGED <<input, output, config, visited, errors, robotsCache, next, result,
                 fetched, robotsFetched>>

\* loadPage returns whatever page the site serves
FetchOk == \E length \in TextLengths, links \in LinkLists : FetchOkWith(length, links)

\* a loop with no try/catch around loadPage: the exception leaves crawl()
FetchFailRethrows ==
  /\ pc = "loading"
  /\ inFlight' = settle(pageRequest(next.url))
  /\ pc' = "rejected"
  /\ UNCHANGED <<input, output, config, queue, visited, loadedContent, errors,
                 currentTokens, subrequestCount, robotsCache, next, result, fetched,
                 robotsFetched>>

\* loadPage throws `reason` after its request settled: the catch records it
FetchFailWith(reason) ==
  /\ pc = "loading"
  /\ errors' = Append(errors, [url |-> next.url, error |-> reason])
  /\ inFlight' = settle(pageRequest(next.url))
  /\ pc' = afterPage(queue)
  /\ UNCHANGED <<input, output, config, queue, visited, loadedContent, currentTokens,
                 subrequestCount, robotsCache, next, result, fetched, robotsFetched>>

\* loadPage throws (non-2xx, timeout, network error, extractor exception)
FetchFail == \E reason \in FailureReasons : FetchFailWith(reason)

\* fetch() throws on a URL it cannot request, before any request: the catch records it
FetchInvalid ==
  /\ pc = "fetch"
  /\ next.url.protocol \notin {"http:", "https:"}
  /\ errors' = Append(errors, [url |-> next.url, error |-> "Invalid URL"])
  /\ pc' = afterPage(queue)
  /\ UNCHANGED <<inFlight, input, output, config, queue, visited, loadedContent, currentTokens,
                 subrequestCount, robotsCache, next, result, fetched, robotsFetched>>

\* await this.delay(this.config.delayMs)
Delay ==
  /\ pc = "delay"
  /\ pc' = "loop"
  /\ UNCHANGED <<inFlight, input, output, config, queue, visited, loadedContent, errors, currentTokens,
                 subrequestCount, robotsCache, next, result, fetched, robotsFetched>>

Next ==
  \/ Seed
  \/ PopVisited
  \/ Pop
  \/ Return
  \/ CheckRobotsThrows
  \/ RobotsRequest
  \/ CheckRobotsLoad
  \/ CheckRobotsCached
  \/ PageRequest
  \/ FetchOk
  \/ FetchFail
  \/ FetchInvalid
  \/ Delay

Spec == Init /\ [][Next]_vars

\* ------------------------------------------------------------------------
\* Properties of the crawl
\* ------------------------------------------------------------------------

BlockedError(url) == [url |-> url, error |-> "Blocked by robots.txt"]

RECURSIVE sumTokens(_)
sumTokens(pages) ==
  IF pages = <<>> THEN 0 ELSE Head(pages).tokenEstimate + sumTokens(Tail(pages))

noDuplicates(s) == \A i, j \in 1..Len(s) : i # j => s[i] # s[j]

\* C1: the number of accepted pages never exceeds maxPages, in every state
\* and in the returned result, and no page is fetched once maxPages pages
\* have been accepted.
C1_PageCap ==
  /\ [](/\ Len(loadedContent) <= config.maxPages
        /\ \A i \in 1..Len(result) : result[i].fileCount <= config.maxPages)
  /\ [][fetched' # fetched => Len(loadedContent) < config.maxPages]_vars

\* the page cap ended a crawl that still had queued URLs and tokens to go
C1_Witness ==
  /\ pc = "done"
  /\ config.maxPages >= 1
  /\ result[1].fileCount = config.maxPages
  /\ result[1].pagesInQueue > 0
  /\ currentTokens < config.targetTokens
  /\ config.maxSubrequests = {}

\* C2: with maxSubrequests configured, the subrequest count never exceeds it
\* and the accepted pages never outnumber the subrequests, so every result
\* has fileCount <= subrequestsUsed <= maxSubrequests.
C2_SubrequestCap ==
  \A m \in config.maxSubrequests :
    /\ subrequestCount <= m
    /\ Len(loadedContent) <= subrequestCount
    /\ \A i \in 1..Len(result) :
         /\ result[i].fileCount <= result[i].subrequestsUsed
         /\ result[i].subrequestsUsed <= m

\* maxSubrequests = 1 with links left in the queue: one page, one subrequest
C2_Witness ==
  /\ pc = "done"
  /\ config.maxSubrequests = {1}
  /\ result[1].fileCount = 1
  /\ result[1].subrequestsUsed = 1
  /\ result[1].pagesInQueue >= 2

\* C3: with maxSubrequests configured, the page fetch attempts of a crawl,
\* failed ones included, never outnumber maxSubrequests.
C3_FetchAttemptsCapped ==
  \A m \in config.maxSubrequests : Len(fetched) <= m

\* C4: stoppedBySubrequestLimit is true in a result only when the token
\* total is below targetTokens and the accepted pages are below maxPages.
C4_FlagOnlyWhenCapEnded ==
  \A i \in 1..Len(result) :
    result[i].stoppedBySubrequestLimit =>
      /\ currentTokens < config.targetTokens
      /\ Len(loadedContent) < config.maxPages

\* C5: a crawl whose subrequest count has reached maxSubrequests does not
\* throw; it leaves the loop and returns a result holding every accepted
\* page, with stoppedBySubrequestLimit true.
C5_CapReturnsPartial ==
  \A m \in config.maxSubrequests :
    subrequestCount = m =>
      /\ pc \in {"new", "loop", "delay", "done"}
      /\ pc = "loop" => ~LoopCondition
      /\ pc = "done" =>
           /\ Len(result) = 1
           /\ result[1].files = loadedContent
           /\ result[1].fileCount = Len(loadedContent)
           /\ result[1].stoppedBySubrequestLimit

\* the cap alone ended the crawl: pages accepted, links queued, target not met
C5_Witness ==
  /\ pc = "done"
  /\ config.maxSubrequests = {subrequestCount}
  /\ subrequestCount >= 2
  /\ Len(result[1].files) >= 1
  /\ result[1].pagesInQueue > 0
  /\ currentTokens < config.targetTokens
  /\ Len(loadedContent) < config.maxPages
  /\ result[1].stoppedBySubrequestLimit

\* C6: a page is fetched only while the token total is below targetTokens,
\* so the accepted pages but the last sum to less than targetTokens; with
\* targetTokens = 100, minTokensPerPage = 0 and pages of 60 tokens the
\* crawl that reaches its target accepted exactly 2 pages.
C6_BudgetTermination ==
  /\ pc \in {"robots", "fetch"} => currentTokens < config.targetTokens
  /\ currentTokens = sumTokens(loadedContent)
  /\ loadedContent # <<>> =>
       sumTokens(SubSeq(loadedContent, 1, Len(loadedContent) - 1)) < config.targetTokens
  /\ \A i \in 1..Len(result) :
       /\ result[i].totalTokens = sumTokens(result[i].files)
       /\ result[i].files # <<>> =>
            sumTokens(SubSeq(result[i].files, 1, Len(result[i].files) - 1))
              < config.targetTokens
       /\ ( /\ config.targetTokens = 100
            /\ config.minTokensPerPage = 0
            /\ result[i].totalTokens >= 100
            /\ \A k \in 1..Len(result[i].files) : result[i].files[k].tokenEstimate = 60 )
          => result[i].fileCount = 2

\* the scenario: two pages of 60 tokens reach the target of 100
C6_Witness ==
  /\ pc = "done"
  /\ config.targetTokens = 100
  /\ config.minTokensPerPage = 0
  /\ result[1].fileCount = 2
  /\ result[1].totalTokens = 120
  /\ result[1].pagesInQueue > 0

\* C7: no URL is accepted twice, none has two error entries, none is both
\* accepted and an error, and none is fetched twice.
C7_Dedup ==
  /\ noDuplicates([i \in 1..Len(loadedContent) |-> loadedContent[i].path])
  /\ noDuplicates([i \in 1..Len(errors) |-> errors[i].url])
  /\ \A i \in 1..Len(loadedContent), j \in 1..Len(errors) :
       loadedContent[i].path # errors[j].url
  /\ noDuplicates(fetched)
  /\ \A i \in 1..Len(result) :
       noDuplicates([k \in 1..Len(result[i].files) |-> result[i].files[k].path])

\* two seeds with one normal form, and a link back to a visited page: the
\* crawl finished with the page accepted once and another URL failed
C7_Witness ==
  /\ pc = "done"
  /\ Len(config.seedUrls) = 2
  /\ normalizeUrl(config.seedUrls[1]) = normalizeUrl(config.seedUrls[2])
  /\ Len(loadedContent) >= 1
  /\ loadedContent[1].path = normalizeUrl(config.seedUrls[1])
  /\ Len(errors) >= 1

\* C8: the queue never holds two entries with the same normalized URL, and
\* a visited URL is never inserted into the queue again.
C8_EnqueuedOnce ==
  /\ [](\A i, j \in 1..Len(queue) : i # j => queue[i].url # queue[j].url)
  /\ [][\A i \in 1..Len(queue') :
          queue'[i].url \in visited =>
            \E j \in 1..Len(queue) : queue[j] = queue'[i]]_vars

\* a step of checkRobots that ends with the checker disallowing the popped URL
RobotsBlockStep ==
  /\ pc \in {"robots", "robotsLoading"}
  /\ pc' \notin {"robots", "robotsLoading"}
  /\ parses(next.url)
  /\ ~isAllowed(robotsCache'[origin(next.url)], userAgent, next.url)

FetchFailureStep ==
  /\ pc \in {"fetch", "loading"}
  /\ pc' \notin {"fetch", "loading"}
  /\ subrequestCount' = subrequestCount

\* C10: a failed fetch or extraction records one error entry for the URL,
\* leaves the accepted pages, the token total and the queue alone, and the
\* loop goes on: crawl() does not reject.
C10_FetchFailureIsolated ==
  [][FetchFailureStep =>
       /\ \E reason \in FailureReasons \cup {"Invalid URL"} :
            errors' = Append(errors, [url |-> next.url, error |-> reason])
       /\ loadedContent' = loadedContent
       /\ currentTokens' = currentTokens
       /\ queue' = queue
       /\ pc' \in {"delay", "loop"}]_vars

\* a page failed, the crawl went on, accepted a later page and returned
C10_Witness ==
  /\ pc = "done"
  /\ Len(errors) >= 1
  /\ errors[1].error \in FailureReasons
  /\ Len(fetched) >= 2
  /\ fetched[1] = errors[1].url
  /\ Len(loadedContent) >= 1

\* the origins of the seed URLs as crawl() queues them
seedOrigins == { origin(normalizeUrl(config.seedUrls[i])) : i \in 1..Len(config.seedUrls) }

\* C11: with sameDomainOnly every queued link (depth > 0) has the origin of
\* the page it was found on, so no link to another origin is ever queued, and
\* every visited URL is a seed or has the origin of a seed.
C11_SameDomainOnly ==
  config.sameDomainOnly =>
    /\ \A i \in 1..Len(queue) :
         queue[i].depth > 0 => origin(queue[i].url) = origin(queue[i].referrer)
    /\ \A u \in visited :
         \/ \E i \in 1..Len(config.seedUrls) : u = normalizeUrl(config.seedUrls[i])
         \/ parses(u) /\ origin(u) \in seedOrigins

\* the home page was accepted with the link list that holds an internal and
\* an external link: the internal one is queued, the external one is not
C11_Witness ==
  /\ config.sameDomainOnly
  /\ Len(loadedContent) = 1
  /\ loadedContent[1].path = L_home
  /\ \E i \in 1..Len(queue) :
       queue[i].url = normalizeUrl(L_docsSlash) /\ queue[i].referrer = L_home
  /\ \A i \in 1..Len(queue) : queue[i].url # L_ext

\* s is t with some elements left out, the order kept
RECURSIVE isSubsequence(_, _)
isSubsequence(s, t) ==
  IF s = <<>> THEN TRUE
  ELSE IF t = <<>> THEN FALSE
  ELSE IF Head(s) = Head(t) THEN isSubsequence(Tail(s), Tail(t))
  ELSE isSubsequence(s, Tail(t))

\* the path of each accepted page, in the order of loadedContent
paths(pages) == [i \in 1..Len(pages) |-> pages[i].path]

\* C12: the entry a pop takes scores at least as high as every entry it
\* leaves queued; accepted pages are appended in the order their URLs were
\* popped (each new page is the URL popped last, the file list is a
\* subsequence of the fetch order), and the result lists them in that order.
C12_BestFirst ==
  /\ [][Len(queue') < Len(queue) =>
          \A i \in 1..Len(queue') : next'.score >= queue'[i].score]_vars
  /\ [][loadedContent' # loadedContent =>
          /\ Len(loadedContent') = Len(loadedContent) + 1
          /\ SubSeq(loadedContent', 1, Len(loadedContent)) = loadedContent
          /\ loadedContent'[Len(loadedContent')].path = next.url]_vars
  /\ [](isSubsequence(paths(loadedContent), fetched))
  /\ [](result # <<>> => result[1].files = loadedContent)

\* the home page listed the external link (70) before the docs link (90):
\* the pop took the docs link and left the external one queued
C12_Witness ==
  /\ pc = "fetch"
  /\ Len(loadedContent) = 1
  /\ next.url = normalizeUrl(L_docsSlash)
  /\ \E i \in 1..Len(queue) : queue[i].url = L_ext /\ queue[i].score < next.score

\* C13: at most one request (page or robots.txt) is in flight at any time,
\* and a URL is popped only when no request is in flight.
C13_Sequential ==
  /\ [](Len(inFlight) <= 1)
  /\ [][Len(queue') < Len(queue) => inFlight = <<>>]_vars

\* the second page is being fetched after a robots.txt request and the first
\* page's request have settled: one request in flight
C13_Witness ==
  /\ pc = "loading"
  /\ Len(fetched) >= 2
  /\ robotsFetched # <<>>
  /\ inFlight = <<pageRequest(next.url)>>

\* the origins whose ruleset is cached
cachedOrigins == DOMAIN robotsCache

\* C20: robots.txt is requested at most once per origin: no origin is
\* requested twice, a request is sent only for the popped URL's origin when it
\* has no cached ruleset, every requested origin is cached once its request
\* settles (whatever the response), every robots-checked URL's origin is
\* cached, and a crawl that has not started has an empty cache.
C20_RobotsOncePerOrigin ==
  /\ [](noDuplicates(robotsFetched))
  /\ [][robotsFetched' # robotsFetched =>
          /\ robotsFetched' = Append(robotsFetched, origin(next.url))
          /\ origin(next.url) \notin cachedOrigins]_vars
  /\ [](\A i \in 1..Len(robotsFetched) :
          \/ robotsFetched[i] \in cachedOrigins
          \/ pc = "robotsLoading" /\ i = Len(robotsFetched))
  /\ [](cachedOrigins \subseteq { robotsFetched[i] : i \in 1..Len(robotsFetched) })
  /\ [](config.respectRobotsTxt =>
          \A u \in visited :
            parses(u) /\ (u # next.url \/ pc \notin {"robots", "robotsLoading"})
              => origin(u) \in cachedOrigins)
  /\ [](pc = "new" => robotsCache = <<>> /\ robotsFetched = <<>>)

\* two URLs of one origin were checked against one robots.txt request, whose
\* fetch had failed (empty ruleset)
C20_Witness ==
  /\ pc = "fetch"
  /\ Len(robotsFetched) = 1
  /\ Cardinality({u \in visited : parses(u) /\ origin(u) = robotsFetched[1]}) >= 2
  /\ robotsCache[robotsFetched[1]].rules = <<>>
  /\ Len(fetched) >= 1

\* ------------------------------------------------------------------------
\* The exported functions applied on their own
\* ------------------------------------------------------------------------

\* a crawler that is constructed and never run
IdleConfig ==
  [seedUrls |-> <<>>, targetTokens |-> 1, minTokensPerPage |-> 0, maxPages |-> 0,
   sameDomainOnly |-> TRUE, respectRobotsTxt |-> TRUE, maxSubrequests |-> {}]

\* the fields of a TokenTargetCrawler after construction
crawlerFields ==
  /\ queue = <<>>
  /\ visited = {}
  /\ loadedContent = <<>>
  /\ errors = <<>>
  /\ currentTokens = 0
  /\ subrequestCount = 0
  /\ robotsCache = <<>>
  /\ next = NoEntry
  /\ result = <<>>
  /\ fetched = <<>>
  /\ robotsFetched = <<>>
  /\ inFlight = <<>>

crawlerIdle ==
  /\ config = IdleConfig
  /\ pc = "new"
  /\ crawlerFields

crawlerVars ==
  <<config, pc, queue, visited, loadedContent, errors, currentTokens,
    subrequestCount, robotsCache, next, result, fetched, robotsFetched, inFlight>>

P_docsSlashSlash == <<"/", "d", "o", "c", "s", "/", "/">>
P_versionDir == <<"/", "v", "1", ".", "2", "/">>

\* the pathnames, query strings and fragments normalizeUrl is applied to
NormalizePaths == {P_root, P_docs, P_docsSlash, P_docsSlashSlash, P_guide, P_versionDir}

NormalizeSearches ==
  { <<>>,
    <<[name |-> "utm_source", value |-> "x"]>>,
    <<[name |-> "utm_id", value |-> "1"]>>,
    <<[name |-> "ref", value |-> "a"], [name |-> "page", value |-> "2"]>>,
    <<[name |-> "page", value |-> "2"], [name |-> "gclid", value |-> "z"]>> }

NormalizeHashes == {"", "intro"}

NormalizeInputs ==
  { Url("https:", "a.com", p, q, h) :
      p \in NormalizePaths, q \in NormalizeSearches, h \in NormalizeHashes }
  \cup {L_rel, L_bad}

InitNormalize ==
  /\ crawlerIdle
  /\ input \in NormalizeInputs
  /\ output = <<>>

\* normalizeUrl(input)
Normalize ==
  /\ output = <<>>
  /\ output' = <<normalizeUrl(input)>>
  /\ UNCHANGED <<input, crawlerVars>>

\* normalizeUrl applied to what normalizeUrl returned
NormalizeAgain ==
  /\ Len(output) = 1
  /\ output' = Append(output, normalizeUrl(output[1]))
  /\ UNCHANGED <<input, crawlerVars>>

NextNormalize ==
  \/ Normalize
  \/ NormalizeAgain

SpecNormalize == InitNormalize /\ [][NextNormalize]_vars

\* C14: normalizing a normalized URL changes nothing, for every input:
\* paths with several trailing slashes and malformed input included.
C14_NormalizeIdempotent ==
  Len(output) = 2 => output[2] = output[1]

\* the tracking parameter names the specification lists by name
listedTracking == {"ref", "source", "campaign", "fbclid", "gclid"}

\* the parameter names of NormalizeSearches that start with utm_
utmPrefixed == {"utm_source", "utm_id"}

\* C15: for a parseable URL the normalized URL has no fragment, no
\* parameter named ref, source, campaign, fbclid, gclid or utm_*, every other
\* parameter of the input with its value, and no trailing slash when its
\* path has no "." and is not "/".
C15_NormalizedForm ==
  Len(output) >= 1 /\ parses(input) =>
    LET normalized == output[1]
    IN /\ parses(normalized)
       /\ normalized.hash = ""
       /\ \A i \in 1..Len(normalized.search) :
            normalized.search[i].name \notin listedTracking \cup utmPrefixed
       /\ normalized.search =
            SelectSeq(input.search,
                      LAMBDA kv : kv.name \notin listedTracking \cup utmPrefixed)
       /\ (normalized.pathname # <<"/">> /\ ~includes(normalized.pathname, <<".">>)
             => ~endsWith(normalized.pathname, <<"/">>))

P_intro == <<"/", "d", "o", "c", "s", "/", "i", "n", "t", "r", "o">>
P_deep == <<"/", "a", "/", "b", "/", "c", "/", "d">>
P_upper == <<"/", "D", "O", "C", "S", "/", "R", "E", "A", "D", "M", "E", ".", "M", "D">>
P_long == [i \in 1..201 |-> IF i = 1 THEN "/" ELSE "x"]

L_docs == Url("https:", "a.com", P_docs, <<>>, "")
L_intro == Url("https:", "a.com", P_intro, <<>>, "")
L_deep == Url("https:", "a.com", P_deep, <<>>, "")
L_upper == Url("https:", "a.com", P_upper, <<>>, "")
L_long == Url("https:", "a.com", P_long, <<>>, "")
L_manyParams ==
  Url("https:", "a.com", P_api,
      <<[name |-> "a", value |-> "1"], [name |-> "b", value |-> "2"],
        [name |-> "c", value |-> "3"], [name |-> "d", value |-> "4"]>>, "")

\* the candidate links and the pages they are found on that scoreLink is
\* applied to
ScoreLinks ==
  { L_home, L_docsSlash, L_docsFrag, L_guide, L_login, L_cartZip, L_private,
    L_static, L_ext, L_mail, L_bad, L_rel, L_long, L_manyParams, L_deep, L_upper }

ScoreSources == { L_home, L_docs, L_intro, L_ext, L_bad }

InitScore ==
  /\ crawlerIdle
  /\ input \in [link : ScoreLinks, sourceUrl : ScoreSources]
  /\ output = <<>>

\* scoreLink(input.link, input.sourceUrl)
Score ==
  /\ output = <<>>
  /\ output' = <<scoreLink(input.link, input.sourceUrl)>>
  /\ UNCHANGED <<input, crawlerVars>>

NextScore == Score

SpecScore == InitScore /\ [][NextScore]_vars

\* the source path up to its last "/", that "/" left out
parentDirectory(pathname) == sourcePathOf(pathname)

\* the adjustments of the link scorer: what each adds and when it applies
adjustments(link, sourceUrl) ==
  LET path == toLowerCase(link.pathname)
  IN << [by |-> 20, when |-> origin(link) = origin(sourceUrl)],
        [by |-> 10, when |-> /\ parentDirectory(sourceUrl.pathname) # <<>>
                             /\ startsWith(link.pathname,
                                           parentDirectory(sourceUrl.pathname))],
        [by |-> 15, when |-> \E p \in docPatterns : includes(path, p)],
        [by |-> -30, when |-> \E p \in skipPatterns : includes(path, p)],
        [by |-> -40, when |-> link.pathname = sourceUrl.pathname /\ link.hash # ""],
        [by |-> -10, when |-> hrefLength(link) > 200],
        [by |-> -15, when |-> Len(link.search) > 3],
        [by |-> 5, when |-> segmentCount(link.pathname) <= 3],
        [by |-> -50, when |-> \E ext \in skipExtensions : endsWith(path, ext)],
        [by |-> 5, when |-> \E ext \in docExtensions : endsWith(path, ext)] >>

RECURSIVE sumApplying(_)
sumApplying(table) ==
  IF table = <<>> THEN 0
  ELSE (IF Head(table).when THEN Head(table).by ELSE 0) + sumApplying(Tail(table))

\* C16: for parseable candidate and source the score is 50 plus the
\* adjustments that apply, brought into 0..100; if either fails to parse it
\* is exactly 10.
C16_ScoreIsClampedSum ==
  Len(output) = 1 =>
    IF parses(input.link) /\ parses(input.sourceUrl)
    THEN LET raw == 50 + sumApplying(adjustments(input.link, input.sourceUrl))
         IN /\ output[1] \in 0..100
            /\ raw < 0 => output[1] = 0
            /\ raw > 100 => output[1] = 100
            /\ raw \in 0..100 => output[1] = raw
    ELSE output[1] = 10

\* /docs/guide.html found on /docs/intro collects 50 + 20 + 10 + 15 + 5 + 5
\* and is returned as 100
C16_Witness ==
  /\ input = [link |-> L_guide, sourceUrl |-> L_intro]
  /\ 50 + sumApplying(adjustments(input.link, input.sourceUrl)) = 105
  /\ output = <<100>>

P_privateOk == <<"/", "p", "r", "i", "v", "a", "t", "e", "/", "o", "k">>
P_privateEnd == <<"/", "p", "r", "i", "v", "a", "t", "e", "$">>
P_anyHtml == <<"/", "*", ".", "h", "t", "m", "l">>
P_anyHtmlEnd == <<"/", "*", ".", "h", "t", "m", "l", "$">>
P_guidePage == <<"/", "d", "o", "c", "s", "/", "g", "u", "i", "d", "e", ".", "h", "t", "m", "l", "/", "2">>

UA_testbot == <<"t", "e", "s", "t", "b", "o", "t">>
UA_upper == <<"T", "E", "S", "T", "B", "O", "T">>

L_privateOk == Url("https:", "a.com", P_privateOk, <<>>, "")

\* robots.txt bodies: an allow in another applicable group; a longer allow
\* in the same group under an upper-case agent; an end-anchored pattern; a
\* wildcard with a shorter allow; directives before any User-agent line
RobotsTexts ==
  { RobotsText,
    << [directive |-> "user-agent", value |-> UA_star],
       [directive |-> "disallow", value |-> P_private],
       [directive |-> "user-agent", value |-> UA_testbot],
       [directive |-> "allow", value |-> P_privateOk] >>,
    << [directive |-> "user-agent", value |-> UA_upper],
       [directive |-> "disallow", value |-> P_docs],
       [directive |-> "allow", value |-> P_guide],
       [directive |-> "crawl-delay", value |-> <<"5">>] >>,
    << [directive |-> "user-agent", value |-> UA_star],
       [directive |-> "disallow", value |-> P_privateEnd] >>,
    << [directive |-> "user-agent", value |-> UA_star],
       [directive |-> "allow", value |-> P_root],
       [directive |-> "disallow", value |-> P_anyHtml],
       [directive |-> "disallow", value |-> <<>>] >>,
    << [directive |-> "disallow", value |-> P_root],
       [directive |-> "user-agent", value |-> UA_other],
       [directive |-> "disallow", value |-> P_root] >> }

\* the responses a checker is loaded from: thrown, 404, 500, 200 with a body
CheckerResponses ==
  { [status |-> 0, text |-> <<>>],
    [status |-> 404, text |-> <<>>],
    [status |-> 500, text |-> RobotsText] }
  \cup { [status |-> 200, text |-> text] : text \in RobotsTexts }

\* the URLs a checker is asked about
CheckerUrls == { L_home, L_docs, L_guide, L_private, L_privateOk, L_bad }

InitRobots ==
  /\ crawlerIdle
  /\ input \in [response : CheckerResponses, url : CheckerUrls]
  /\ output = [checker |-> NewRobotsChecker, answers |-> <<>>]

\* checker.load() on a checker that is not loaded; the response is what its
\* fetch met
RobotsLoad ==
  /\ ~output.checker.loaded
  /\ output' = [output EXCEPT !.checker = load(@, input.response)]
  /\ UNCHANGED <<input, crawlerVars>>

\* the checker has not been asked since it came into its present state
notAsked == \A i \in 1..Len(output.answers) : output.answers[i].loaded # output.checker.loaded

\* checker.isAllowed(input.url) returns
RobotsIsAllowed ==
  /\ notAsked
  /\ ~output.checker.loaded \/ parses(input.url)
  /\ output' = [output EXCEPT !.answers =
                  Append(@, [loaded |-> output.checker.loaded,
                             allowed |-> isAllowed(output.checker, userAgent, input.url)])]
  /\ UNCHANGED <<input, crawlerVars>>

\* checker.isAllowed(input.url) on a loaded checker throws: new URL(url)
\* rejects the string
RobotsIsAllowedThrows ==
  /\ notAsked
  /\ output.checker.loaded
  /\ ~parses(input.url)
  /\ output' = [output EXCEPT !.answers =
                  Append(@, [loaded |-> TRUE, allowed |-> "TypeError"])]
  /\ UNCHANGED <<input, crawlerVars>>

NextRobots ==
  \/ RobotsLoad
  \/ RobotsIsAllowed
  \/ RobotsIsAllowedThrows

SpecRobots == InitRobots /\ [][NextRobots]_vars

\* the robots.txt fetch threw or answered non-2xx
fetchFailed(response) == response.status < 200 \/ response.status > 299

\* C17: the checker fails open: isAllowed is true before load() and, for
\* every URL that parses, after a load() whose fetch failed or answered
\* non-2xx; load() always completes, and leaves the checker LOADED (with no
\* rule after a failure).
C17_FailOpen ==
  /\ [](\A i \in 1..Len(output.answers) :
          (\/ ~output.answers[i].loaded
           \/ fetchFailed(input.response) /\ parses(input.url))
            => output.answers[i].allowed = TRUE)
  /\ [](~output.checker.loaded => ENABLED RobotsLoad)
  /\ [][output'.checker # output.checker => output'.checker.loaded]_vars
  /\ [](output.checker.loaded /\ fetchFailed(input.response)
          => output.checker.rules = <<>>)

\* robots.txt answered 500 with a body that disallows /private: the checker
\* allowed /private before the load and allows it after
C17_Witness ==
  /\ input.response.status = 500
  /\ input.url = L_private
  /\ output.checker.loaded
  /\ Len(output.answers) = 2
  /\ ~output.answers[1].loaded /\ output.answers[1].allowed = TRUE
  /\ output.answers[2].loaded /\ output.answers[2].allowed = TRUE

\* the rule groups of a parsed robots.txt that apply to the crawler
applicableGroups(rules) == {r \in 1..Len(rules) : applies(rules[r], userAgent)}

\* some disallow pattern of an applicable group matches the path and no
\* longer allow pattern of any applicable group matches it
blockedByAnyGroup(rules, pathname) ==
  \E g \in applicableGroups(rules) :
    \E d \in 1..Len(rules[g].disallow) :
      /\ pathMatches(pathname, rules[g].disallow[d])
      /\ ~ \E h \in applicableGroups(rules) :
             \E a \in 1..Len(rules[h].allow) :
               /\ pathMatches(pathname, rules[h].allow[a])
               /\ Len(rules[h].allow[a]) > Len(rules[g].disallow[d])

\* C18: after a successful load isAllowed is false exactly when a disallow
\* pattern of an applicable group matches the path and no longer allow
\* pattern of any applicable group matches it.
C18_BlockedUnlessLongerAllow ==
  \A i \in 1..Len(output.answers) :
    output.answers[i].loaded /\ ~fetchFailed(input.response) /\ parses(input.url)
      => (output.answers[i].allowed
            = ~blockedByAnyGroup(parse(input.response.text), input.url.pathname))

\* the pathnames and patterns pathMatches is applied to
MatchPaths ==
  { P_root, P_docs, P_private, P_privateOk, P_privateEnd, P_guide, P_guidePage, P_login }

MatchPatterns ==
  { P_root, P_private, P_privateEnd, P_anyHtml, P_anyHtmlEnd, P_docsSlash, <<"*">> }

InitMatch ==
  /\ crawlerIdle
  /\ input \in [pathname : MatchPaths, pattern : MatchPatterns]
  /\ output = <<>>

\* pathMatches(input.pathname, input.pattern)
Match ==
  /\ output = <<>>
  /\ output' = <<pathMatches(input.pathname, input.pattern)>>
  /\ UNCHANGED <<input, crawlerVars>>

NextMatch == Match

SpecMatch == InitMatch /\ [][NextMatch]_vars

\* glob matching: "*" stands for any character sequence, every other
\* character for itself; anchored, the path must end where the glob ends
RECURSIVE globMatches(_, _, _)
globMatches(s, glob, anchored) ==
  IF glob = <<>> THEN (anchored => s = <<>>)
  ELSE IF Head(glob) = "*"
       THEN \E k \in 0..Len(s) : globMatches(SubSeq(s, k + 1, Len(s)), Tail(glob), anchored)
       ELSE s # <<>> /\ Head(s) = Head(glob) /\ globMatches(Tail(s), Tail(glob), anchored)

\* C19: a pattern without a trailing "$" matches the paths that start
\* with it, a pattern ending in "$" only the paths that end where it ends,
\* "*" matching any character sequence in both.
C19_GlobWithEndAnchor ==
  Len(output) = 1 =>
    output[1] =
      IF input.pattern[Len(input.pattern)] = "$"
      THEN globMatches(input.pathname, SubSeq(input.pattern, 1, Len(input.pattern) - 1), TRUE)
      ELSE globMatches(input.pathname, input.pattern, FALSE)

\* C25: a fetched page below minTokensPerPage is discarded: a counted
\* fetch either accepts one page of at least minTokensPerPage tokens and adds
\* its estimate to the total, or leaves the accepted pages, the total and
\* the queue as they were; so every accepted and every returned file has at
\* least minTokensPerPage tokens and every queued link was found on an
\* accepted page.
C25_ShortPagesDiscarded ==
  /\ [][subrequestCount' # subrequestCount =>
          IF loadedContent' = loadedContent
          THEN queue' = queue /\ currentTokens' = currentTokens
          ELSE /\ Len(loadedContent') = Len(loadedContent) + 1
               /\ loadedContent'[Len(loadedContent')].tokenEstimate
                    >= config.minTokensPerPage
               /\ currentTokens' = currentTokens
                    + loadedContent'[Len(loadedContent')].tokenEstimate]_vars
  /\ [](\A i \in 1..Len(loadedContent) :
          loadedContent[i].tokenEstimate >= config.minTokensPerPage)
  /\ [](result # <<>> =>
          \A i \in 1..Len(result[1].files) :
            result[1].files[i].tokenEstimate >= config.minTokensPerPage)
  /\ [](\A i \in 1..Len(queue) :
          queue[i].depth > 0 =>
            \E j \in 1..Len(loadedContent) : loadedContent[j].path = queue[i].referrer)
  /\ [](currentTokens = sumTokens(loadedContent))

\* the only seed was fetched, came in under minTokensPerPage and was
\* discarded: the crawl returned no page, no token and an empty queue
C25_Witness ==
  /\ pc = "done"
  /\ config.minTokensPerPage > 0
  /\ subrequestCount = 1
  /\ fetched = <<L_home>>
  /\ errors = <<>>
  /\ loadedContent = <<>>
  /\ currentTokens = 0
  /\ result[1].pagesInQueue = 0

\* ------------------------------------------------------------------------
\* UrlAdapter.load on a site whose answers are fixed
\* ------------------------------------------------------------------------

\* a ?? b for an optional a: {} is undefined, {x} is x
orElse(a, b) == IF a = {} THEN b ELSE CHOOSE x \in a : TRUE

\* what a site answers: per URL the page loadPage gets (or the reason it
\* throws), per origin the response to GET /robots.txt
pageServed(length, links) == [ok |-> TRUE, length |-> length, links |-> links, reason |-> ""]
pageFailing(reason) == [ok |-> FALSE, length |-> 0, links |-> <<>>, reason |-> reason]

LinksOfHome == <<L_ext, L_docsSlash, L_docsFrag, L_static, L_rel, L_cartZip>>
LinksOfDocs == <<L_guide, L_private, L_home, L_mail, L_login>>

SiteA ==
  [pages |-> [url \in {L_home, L_docs, L_private, L_ext, L_login} |->
                CASE url = L_home -> pageServed(240, LinksOfHome)
                  [] url = L_docs -> pageServed(240, LinksOfDocs)
                  [] url = L_private -> pageServed(0, LinksOfHome)
                  [] url = L_ext -> pageServed(240, LinksOfDocs)
                  [] url = L_login -> pageServed(240, <<>>)],
   robots |-> [o \in {origin(L_home)} |-> [status |-> 200, text |-> RobotsText]]]

SiteB ==
  [pages |-> [url \in {L_home, L_docs, L_private} |->
                CASE url = L_home -> pageServed(240, LinksOfDocs)
                  [] url = L_docs -> pageFailing("No text content found in PDF")
                  [] url = L_private -> pageServed(240, LinksOfHome)],
   robots |-> [o \in {origin(L_home)} |-> [status |-> 404, text |-> <<>>]]]

Sites == {SiteA, SiteB}

\* loadPage(url) against the site: a URL the site does not serve answers 404
pageOf(site, url) ==
  IF url \in DOMAIN site.pages THEN site.pages[url]
  ELSE pageFailing("HTTP 404: Not Found")

\* the response to GET origin/robots.txt: an origin that is not up makes
\* fetch throw
robotsOf(site, o) ==
  IF o \in DOMAIN site.robots THEN site.robots[o] ELSE [status |-> 0, text |-> <<>>]

\* the source configs and options load is called with; an absent field is {}
LoadSources ==
  [urls : { {}, { <<>> }, { <<L_home, L_bad>> }, { <<L_mail>> },
            { <<L_docsSlash, L_docsFrag>> }, { <<L_private, L_ext>> } },
   url : {{}, {L_home}, {L_bad}},
   targetTokens : {{}, {1}},
   minTokensPerPage : {{}, {0}},
   maxPages : {{}, {1}},
   sameDomainOnly : {{}, {FALSE}},
   respectRobotsTxt : {{}, {FALSE}},
   maxSubrequests : {{}}]

LoadOptions == [maxTokens : {{}, {100}}]

\* UrlAdapter.defaultMaxSubrequests
defaultMaxSubrequests == {}

\* config.urls ?? (config.url ? [config.url] : [])
seedUrlsOf(source) ==
  orElse(source.urls, IF source.url = {} THEN <<>> ELSE <<orElse(source.url, L_bad)>>)

\* a load that starts the crawl whatever the seeds are
seedUrlsValidAlways(seedUrls) == TRUE

\* load: neither the length test nor the loop over seedUrls throws
seedUrlsValid(seedUrls) ==
  /\ Len(seedUrls) # 0
  /\ \A i \in 1..Len(seedUrls) :
       parses(seedUrls[i]) /\ seedUrls[i].protocol \in {"http:", "https:"}

\* the LoadError the validation throws: the non-http(s) LoadError is thrown
\* inside the try and replaced by the catch
validationError(seedUrls) ==
  IF Len(seedUrls) = 0
  THEN [name |-> "LoadError", source |-> NotAUrl("url"), message |-> "No URL provided"]
  ELSE LET i == CHOOSE k \in 1..Len(seedUrls) :
                  /\ ~seedUrlsValid(<<seedUrls[k]>>)
                  /\ \A j \in 1..(k - 1) : seedUrlsValid(<<seedUrls[j]>>)
       IN [name |-> "LoadError", source |-> seedUrls[i], message |-> "Invalid URL format"]

\* load: the CrawlConfig built with defaults
crawlConfigOf(source, options) ==
  [seedUrls |-> seedUrlsOf(source),
   targetTokens |-> orElse(source.targetTokens, orElse(options.maxTokens, 100000)),
   minTokensPerPage |-> orElse(source.minTokensPerPage, 500),
   maxPages |-> orElse(source.maxPages, 50),
   sameDomainOnly |-> orElse(source.sameDomainOnly, TRUE),
   respectRobotsTxt |-> orElse(source.respectRobotsTxt, TRUE),
   maxSubrequests |-> IF source.maxSubrequests = {} THEN defaultMaxSubrequests
                      ELSE source.maxSubrequests]

InitLoad ==
  /\ config = IdleConfig
  /\ pc = "load"
  /\ crawlerFields
  /\ input \in [source : LoadSources, options : LoadOptions, site : Sites]
  /\ output = <<>>

\* load throws in its validation
LoadRejects ==
  /\ pc = "load"
  /\ ~seedUrlsValid(seedUrlsOf(input.source))
  /\ output' = <<validationError(seedUrlsOf(input.source))>>
  /\ pc' = "loadRejected"
  /\ UNCHANGED <<input, config, queue, visited, loadedContent, errors, currentTokens,
                 subrequestCount, robotsCache, next, result, fetched, robotsFetched,
                 inFlight>>

\* load passes its validation, builds the CrawlConfig and constructs the
\* crawler; crawl() is entered
LoadStarts ==
  /\ pc = "load"
  /\ seedUrlsValid(seedUrlsOf(input.source))
  /\ config' = crawlConfigOf(input.source, input.options)
  /\ pc' = "new"
  /\ UNCHANGED <<input, output, queue, visited, loadedContent, errors, currentTokens,
                 subrequestCount, robotsCache, next, result, fetched, robotsFetched,
                 inFlight>>

\* checker.load() settles on what the site answers for the origin
RobotsSettles == CheckRobotsLoadWith(robotsOf(input.site, origin(next.url)))

\* loadPage returns the page the site serves
PageLoads ==
  /\ pageOf(input.site, next.url).ok
  /\ FetchOkWith(pageOf(input.site, next.url).length, pageOf(input.site, next.url).links)

\* loadPage throws as the site makes it
PageFails ==
  /\ ~pageOf(input.site, next.url).ok
  /\ FetchFailWith(pageOf(input.site, next.url).reason)

\* crawl() resolved: load returns its LoadedSource
LoadReturns ==
  /\ pc = "done"
  /\ output' = result
  /\ pc' = "loadDone"
  /\ UNCHANGED <<input, config, queue, visited, loadedContent, errors, currentTokens,
                 subrequestCount, robotsCache, next, result, fetched, robotsFetched,
                 inFlight>>

\* crawl() on validated seeds cannot reject (the only throw outside a catch
\* is checkRobots's new URL on an unparseable URL), so the catch of load
\* that wraps a crawl error is never entered
NextLoad ==
  \/ LoadRejects
  \/ LoadStarts
  \/ Seed
  \/ PopVisited
  \/ Pop
  \/ Return
  \/ RobotsRequest
  \/ RobotsSettles
  \/ CheckRobotsCached
  \/ PageRequest
  \/ PageLoads
  \/ PageFails
  \/ Delay
  \/ LoadReturns

SpecLoad == InitLoad /\ [][NextLoad]_vars

\* there is no seed, or some seed does not parse or is not http/https
someSeedUnusable(seedUrls) ==
  \/ seedUrls = <<>>
  \/ \E i \in 1..Len(seedUrls) :
       ~parses(seedUrls[i]) \/ seedUrls[i].protocol \notin {"http:", "https:"}

\* C21: when no seed is supplied or a seed is unparseable or not
\* http/https, load rejects with a LoadError and nothing else happens: no
\* request is ever sent, the crawl loop is never entered; and load rejects
\* in its validation for no other input.
C21_ConfigErrorsBeforeIO ==
  /\ someSeedUnusable(seedUrlsOf(input.source)) =>
       /\ pc \in {"load", "loadRejected"}
       /\ fetched = <<>> /\ robotsFetched = <<>> /\ inFlight = <<>>
       /\ queue = <<>> /\ visited = {}
       /\ pc = "load" => ENABLED LoadRejects /\ ~ENABLED LoadStarts
  /\ pc = "loadRejected" =>
       /\ someSeedUnusable(seedUrlsOf(input.source))
       /\ Len(output) = 1 /\ output[1].name = "LoadError"

\* the second of two seeds does not parse: load rejected naming it, with no
\* request sent for the first
C21_Witness ==
  /\ pc = "loadRejected"
  /\ seedUrlsOf(input.source) = <<L_home, L_bad>>
  /\ output[1].source = L_bad
  /\ fetched = <<>> /\ robotsFetched = <<>>

\* ------------------------------------------------------------------------
\* Two crawls started through one UrlAdapter, interleaved by the event loop
\* ------------------------------------------------------------------------

\* the fields of the TokenTargetCrawler that is running
instanceState ==
  [config |-> config, pc |-> pc, queue |-> queue, visited |-> visited,
   loadedContent |-> loadedContent, errors |-> errors,
   currentTokens |-> currentTokens, subrequestCount |-> subrequestCount,
   robotsCache |-> robotsCache, next |-> next, result |-> result,
   fetched |-> fetched, robotsFetched |-> robotsFetched, inFlight |-> inFlight]

\* new TokenTargetCrawler(crawlConfig, ...) in load
newInstance(crawlConfig) ==
  [config |-> crawlConfig, pc |-> "new", queue |-> <<>>, visited |-> {},
   loadedContent |-> <<>>, errors |-> <<>>, currentTokens |-> 0,
   subrequestCount |-> 0, robotsCache |-> <<>>, next |-> NoEntry, result |-> <<>>,
   fetched |-> <<>>, robotsFetched |-> <<>>, inFlight |-> <<>>]

\* the source configs of the two loads: valid seeds, the other fields as
\* load's defaults or set
ConcurrentSources ==
  { s \in LoadSources :
      /\ s.url = {} /\ s.urls # {}
      /\ seedUrlsValid(seedUrlsOf(s))
      /\ s.targetTokens = {} /\ s.maxPages = {} /\ s.sameDomainOnly = {} }

NoOptions == [maxTokens |-> {}]

InitConcurrent ==
  /\ input \in [site : Sites, sources : ConcurrentSources \X ConcurrentSources]
  /\ config = crawlConfigOf(input.sources[1], NoOptions)
  /\ pc = "new"
  /\ crawlerFields
  /\ output = [running |-> 1,
               suspended |-> newInstance(crawlConfigOf(input.sources[2], NoOptions))]

\* crawlers whose robots cache is one static map
resumedSharingRobotsCache(saved) == [saved EXCEPT !.robotsCache = robotsCache]

\* what a crawl finds in its fields when it is resumed: they are instance
\* fields, each load constructs its own crawler
resumed(saved) == saved

\* the event loop turns from the running crawl to the other one; allowed
\* between any two steps, which covers every await of crawl()
Switch ==
  /\ output' = [running |-> 3 - output.running, suspended |-> instanceState]
  /\ LET mine == resumed(output.suspended)
     IN /\ config' = mine.config
        /\ pc' = mine.pc
        /\ queue' = mine.queue
        /\ visited' = mine.visited
        /\ loadedContent' = mine.loadedContent
        /\ errors' = mine.errors
        /\ currentTokens' = mine.currentTokens
        /\ subrequestCount' = mine.subrequestCount
        /\ robotsCache' = mine.robotsCache
        /\ next' = mine.next
        /\ result' = mine.result
        /\ fetched' = mine.fetched
        /\ robotsFetched' = mine.robotsFetched
        /\ inFlight' = mine.inFlight
  /\ UNCHANGED input

NextConcurrent ==
  \/ Switch
  \/ Seed
  \/ PopVisited
  \/ Pop
  \/ Return
  \/ RobotsRequest
  \/ RobotsSettles
  \/ CheckRobotsCached
  \/ PageRequest
  \/ PageLoads
  \/ PageFails
  \/ Delay

SpecConcurrent == InitConcurrent /\ [][NextConcurrent]_vars

SiteLoop ==
  [pages |-> [url \in {L_home, L_docs, L_private} |->
                CASE url = L_home -> pageServed(240, <<L_docsSlash>>)
                  [] url = L_docs -> pageServed(240, <<L_home>>)
                  [] url = L_private -> pageFailing("HTTP 500: Internal Server Error")],
   robots |-> [o \in {origin(L_home)} |-> [status |-> 200, text |-> RobotsText]]]

\* loads whose token target and caps are load's defaults, far above what
\* the site can supply
TerminateSources ==
  { s \in LoadSources :
      /\ s.url = {}
      /\ s.targetTokens = {} /\ s.maxPages = {} /\ s.sameDomainOnly = {} }

InitTerminate ==
  /\ config = IdleConfig
  /\ pc = "load"
  /\ crawlerFields
  /\ input \in [source : TerminateSources, options : {NoOptions}, site : {SiteLoop}]
  /\ output = <<>>

\* every request settles (fetch is given AbortSignal.timeout, delay is a
\* timer) and the event loop runs every continuation that is ready
SpecTerminate == InitTerminate /\ [][NextLoad]_vars /\ WF_vars(NextLoad)

\* C24: against a site of finitely many URLs, with every request settling,
\* crawl() returns a result, also when neither the token target nor the
\* page cap nor the subrequest cap is reached: every pass of the loop head
\* removes one queue entry, and no URL that was visited is inserted again.
C24_Terminates ==
  /\ (pc = "new") ~> (pc = "done" /\ result # <<>>)
  /\ [][pc = "loop" /\ pc' # "done" => Len(queue') = Len(queue) - 1]_vars
  /\ [][\A i \in 1..Len(queue') :
          (\A j \in 1..Len(queue) : queue[j].url # queue'[i].url)
            => queue'[i].url \notin visited]_vars
  /\ [][visited \subseteq visited']_vars

\* a crawl of the cycle has returned because its queue ran empty, having
\* accepted both pages, below the token target and the page cap and with
\* no subrequest cap
C24_Witness ==
  /\ pc = "done"
  /\ queue = <<>>
  /\ fetched = <<L_docs, L_home>>
  /\ Len(loadedContent) = 2
  /\ currentTokens < config.targetTokens
  /\ Len(loadedContent) < config.maxPages
  /\ config.maxSubrequests = {}

\* ------------------------------------------------------------------------
\* handlers.ts: combineLoadedSources
\* ------------------------------------------------------------------------

\* sources.reduce((sum, s) => sum + s.totalTokens, 0) takes the first source only
reduceFirstOnly(sources, sum, field) ==
  IF sources = <<>> THEN sum ELSE sum + Head(sources)[field]

\* sources.reduce((sum, s) => sum + s[field], 0)
RECURSIVE reduceSum(_, _, _)
reduceSum(sources, sum, field) ==
  IF sources = <<>> THEN sum
  ELSE reduceSum(Tail(sources), sum + Head(sources)[field], field)

\* sources.flatMap((s) => s.files)
RECURSIVE flatMapFiles(_)
flatMapFiles(sources) ==
  IF sources = <<>> THEN <<>>
  ELSE Head(sources).files \o flatMapFiles(Tail(sources))

\* combineLoadedSources(sources, sourceNames): content and loadedAt left out,
\* metadata.source is the list of names that is joined with " + "
combineLoadedSources(sources, sourceNames) ==
  [totalTokens |-> reduceSum(sources, 0, "totalTokens"),
   fileCount |-> reduceSum(sources, 0, "fileCount"),
   files |-> flatMapFiles(sources),
   source |-> sourceNames]

\* the longest list of sources combined
MaxSources == 3

\* LoadedSource values as the adapters return them
CombineSources ==
  { [totalTokens |-> tokens, fileCount |-> Len(files), files |-> files] :
      tokens \in {0, 100, 250},
      files \in { <<>>, <<"a.md">>, <<"b.md", "c.md">> } }

InitCombine ==
  /\ crawlerIdle
  /\ \E n \in 0..MaxSources :
       input \in [sources : [1..n -> CombineSources], sourceNames : {[i \in 1..n |-> i]}]
  /\ output = <<>>

\* combineLoadedSources(input.sources, input.sourceNames)
Combine ==
  /\ output = <<>>
  /\ output' = <<combineLoadedSources(input.sources, input.sourceNames)>>
  /\ UNCHANGED <<input, crawlerVars>>

NextCombine == Combine

SpecCombine == InitCombine /\ [][NextCombine]_vars

\* the sum of a field over the first n sources
RECURSIVE sumUpTo(_, _, _)
sumUpTo(sources, n, field) ==
  IF n = 0 THEN 0 ELSE sumUpTo(sources, n - 1, field) + sources[n][field]

\* the number of files of the first n sources
RECURSIVE filesUpTo(_, _)
filesUpTo(sources, n) ==
  IF n = 0 THEN 0 ELSE filesUpTo(sources, n - 1) + Len(sources[n].files)

\* C26: combineLoadedSources returns the sum of the inputs' totalTokens as
\* totalTokens, the sum of their fileCount as fileCount, and as files the
\* inputs' files one input after the other, in input order.
C26_CombinedTotals ==
  output # <<>> =>
    LET sources == input.sources
        n == Len(sources)
        combined == output[1]
    IN /\ combined.totalTokens = sumUpTo(sources, n, "totalTokens")
       /\ combined.fileCount = sumUpTo(sources, n, "fileCount")
       /\ Len(combined.files) = filesUpTo(sources, n)
       /\ \A i \in 1..n : \A j \in 1..Len(sources[i].files) :
            combined.files[filesUpTo(sources, i - 1) + j] = sources[i].files[j]

\* sources of 100 and 250 tokens with one and two files are combined into
\* 350 tokens and three files
C26_Witness ==
  /\ output # <<>>
  /\ Len(input.sources) = 2
  /\ input.sources[1].totalTokens = 100 /\ input.sources[1].files = <<"a.md">>
  /\ input.sources[2].totalTokens = 250 /\ input.sources[2].files = <<"b.md", "c.md">>
  /\ output[1].totalTokens = 350
  /\ output[1].fileCount = 3
  /\ output[1].files = <<"a.md", "b.md", "c.md">>

\* ------------------------------------------------------------------------
\* source-loader.ts: SourceLoader
\* ------------------------------------------------------------------------
\* A directory entry is a file [name, isFile, isDirectory, ext, length,
\* readable] or a directory [name, isFile, isDirectory, entries]; a path is
\* the sequence of the names that lead to the entry. What a load leaves
\* behind is [returned, console]: the LoadedSource or the error the caller
\* gets, and the lines written with console.warn.

\* SourceLoader.estimateTokens: Math.ceil(content.length / 4)
loaderEstimateTokens(length) == (length + 3) \div 4

documentExtensions == {".md", ".mdx", ".txt", ".rst", ".pdf"}

skippedDirectories == {"node_modules", ".git", "dist", "build"}

sumTokenEstimates(files) == reduceSum(files, 0, "tokenEstimate")

\* collectDocumentFiles(dirPath, files, currentTokens, recursive): entries is
\* what readdir(dirPath) returns, st.files the array all calls push to;
\* tokensSoFar is the parameter currentTokens, a number, so what a
\* recursive call adds to its own copy is not seen by its caller
RECURSIVE collectDocumentFiles(_, _, _, _, _, _)
collectDocumentFiles(dirPath, entries, st, tokensSoFar, recursive, maxTokens) ==
  IF entries = <<>> THEN st
  ELSE
    LET entry == Head(entries)
        fullPath == Append(dirPath, entry.name)
        tokenEstimate == loaderEstimateTokens(entry.length)
    IN IF entry.isDirectory /\ recursive
       THEN IF entry.name \in skippedDirectories
            THEN collectDocumentFiles(dirPath, Tail(entries), st, tokensSoFar, recursive, maxTokens)
            ELSE collectDocumentFiles(dirPath, Tail(entries),
                   collectDocumentFiles(fullPath, entry.entries, st, tokensSoFar,
                                        recursive, maxTokens),
                   tokensSoFar, recursive, maxTokens)
       ELSE IF entry.isFile /\ entry.ext \in documentExtensions
            THEN IF ~entry.readable
                 THEN collectDocumentFiles(dirPath, Tail(entries),
                        [st EXCEPT !.console = Append(@, <<"failed to read", fullPath>>)],
                        tokensSoFar, recursive, maxTokens)
                 ELSE IF tokensSoFar + tokenEstimate > maxTokens
                      THEN collectDocumentFiles(dirPath, Tail(entries),
                             [st EXCEPT !.console = Append(@, <<"would exceed token limit", fullPath>>)],
                             tokensSoFar, recursive, maxTokens)
                      ELSE collectDocumentFiles(dirPath, Tail(entries),
                             [st EXCEPT !.files = Append(@, [path |-> fullPath,
                                                             tokenEstimate |-> tokenEstimate])],
                             tokensSoFar + tokenEstimate, recursive, maxTokens)
            ELSE collectDocumentFiles(dirPath, Tail(entries), st, tokensSoFar, recursive, maxTokens)

loaded(files, source) ==
  [ok |-> TRUE, totalTokens |-> sumTokenEstimates(files), fileCount |-> Len(files),
   files |-> files, source |-> source]

thrown(error, message) == [ok |-> FALSE, error |-> error, message |-> message]

\* loadMarkdownDirectory(dirPath, recursive)
loadMarkdownDirectory(dirPath, entries, recursive, maxTokens) ==
  LET st == collectDocumentFiles(dirPath, entries, [files |-> <<>>, console |-> <<>>], 0,
                                 recursive, maxTokens)
  IN [returned |-> IF st.files = <<>> THEN thrown("LoadError", "No document files found")
                   ELSE loaded(st.files, dirPath),
      console |-> st.console]

\* the loop of loadFiles: totalTokens is a local of the one loop
RECURSIVE loadFilesLoop(_, _, _, _, _)
loadFilesLoop(dirPath, filePaths, st, totalTokens, maxTokens) ==
  IF filePaths = <<>> THEN st
  ELSE
    LET entry == Head(filePaths)
        filePath == Append(dirPath, entry.name)
        tokenEstimate == loaderEstimateTokens(entry.length)
    IN IF ~entry.isFile
       THEN loadFilesLoop(dirPath, Tail(filePaths), st, totalTokens, maxTokens)
       ELSE IF ~entry.readable
            THEN loadFilesLoop(dirPath, Tail(filePaths),
                   [st EXCEPT !.console = Append(@, <<"failed to read", filePath>>)],
                   totalTokens, maxTokens)
            ELSE IF totalTokens + tokenEstimate > maxTokens
                 THEN loadFilesLoop(dirPath, Tail(filePaths),
                        [st EXCEPT !.console = Append(@, <<"would exceed token limit", filePath>>)],
                        totalTokens, maxTokens)
                 ELSE loadFilesLoop(dirPath, Tail(filePaths),
                        [st EXCEPT !.files = Append(@, [path |-> <<entry.name>>,
                                                        tokenEstimate |-> tokenEstimate])],
                        totalTokens + tokenEstimate, maxTokens)

\* loadFiles(filePaths): the paths are those of the entries of dirPath
loadFiles(dirPath, filePaths, maxTokens) ==
  LET st == loadFilesLoop(dirPath, filePaths, [files |-> <<>>, console |-> <<>>], 0, maxTokens)
  IN [returned |-> IF st.files = <<>> THEN thrown("LoadError", "No files could be loaded")
                   ELSE loaded(st.files, Len(st.files)),
      console |-> st.console]

\* loadFile(filePath)
loadFile(dirPath, entry, maxTokens) ==
  [returned |->
     IF ~entry.isFile THEN thrown("LoadError", "Path is not a file")
     ELSE IF ~entry.readable THEN thrown("LoadError", "Failed to read")
     ELSE IF loaderEstimateTokens(entry.length) > maxTokens
          THEN thrown("TokenLimitError", <<loaderEstimateTokens(entry.length), maxTokens>>)
          ELSE loaded(<<[path |-> <<entry.name>>,
                         tokenEstimate |-> loaderEstimateTokens(entry.length)]>>,
                      Append(dirPath, entry.name)),
   console |-> <<>>]

\* loadString(content, name)
loadString(length, name, maxTokens) ==
  [returned |->
     IF loaderEstimateTokens(length) > maxTokens
     THEN thrown("TokenLimitError", <<loaderEstimateTokens(length), maxTokens>>)
     ELSE loaded(<<[path |-> <<name>>, tokenEstimate |-> loaderEstimateTokens(length)]>>, name),
   console |-> <<>>]

file(name, ext, length, readable) ==
  [name |-> name, isFile |-> TRUE, isDirectory |-> FALSE, ext |-> ext,
   length |-> length, readable |-> readable]

directory(name, entries) ==
  [name |-> name, isFile |-> FALSE, isDirectory |-> TRUE, entries |-> entries,
   ext |-> "", length |-> 0, readable |-> FALSE]

\* the entries a loaded directory is made of: files of 25 and 60 tokens, a
\* source file, a file that cannot be read, and directories one and two
\* levels deep
DirectoryEntries ==
  { file("a.md", ".md", 100, TRUE),
    file("b.txt", ".txt", 100, TRUE),
    file("big.md", ".md", 240, TRUE),
    file("x.ts", ".ts", 100, TRUE),
    file("locked.md", ".md", 100, FALSE),
    directory("sub", <<file("c.md", ".md", 100, TRUE), file("d.rst", ".rst", 100, TRUE)>>),
    directory("deep", <<directory("inner", <<file("e.md", ".md", 100, TRUE)>>),
                        file("f.md", ".md", 100, TRUE)>>),
    directory("node_modules", <<file("dep.md", ".md", 100, TRUE)>>) }

\* the longest directory listing loaded
MaxEntries == 2

LoaderLimits == {50, 100}

InitSourceLoader ==
  /\ crawlerIdle
  /\ \E n \in 0..MaxEntries :
       input \in [dirPath : { <<"docs">> }, entries : [1..n -> DirectoryEntries],
                  recursive : BOOLEAN, maxTokens : LoaderLimits]
  /\ output = <<>>

\* new SourceLoader({ maxTokens }).loadMarkdownDirectory(dirPath, recursive)
LoadMarkdownDirectory ==
  /\ output = <<>>
  /\ output' = <<[op |-> "loadMarkdownDirectory"] @@
                 loadMarkdownDirectory(input.dirPath, input.entries, input.recursive,
                                       input.maxTokens)>>
  /\ UNCHANGED <<input, crawlerVars>>

\* new SourceLoader({ maxTokens }).loadFiles(the paths of the entries)
LoadFiles ==
  /\ output = <<>>
  /\ output' = <<[op |-> "loadFiles"] @@
                 loadFiles(input.dirPath, input.entries, input.maxTokens)>>
  /\ UNCHANGED <<input, crawlerVars>>

\* new SourceLoader({ maxTokens }).loadFile(the path of the first entry)
LoadFile ==
  /\ output = <<>>
  /\ input.entries # <<>>
  /\ output' = <<[op |-> "loadFile"] @@
                 loadFile(input.dirPath, input.entries[1], input.maxTokens)>>
  /\ UNCHANGED <<input, crawlerVars>>

\* new SourceLoader({ maxTokens }).loadString(the content of the first entry)
LoadString ==
  /\ output = <<>>
  /\ input.entries # <<>>
  /\ input.entries[1].isFile
  /\ output' = <<[op |-> "loadString"] @@
                 loadString(input.entries[1].length, "content", input.maxTokens)>>
  /\ UNCHANGED <<input, crawlerVars>>

NextSourceLoader ==
  \/ LoadMarkdownDirectory
  \/ LoadFiles
  \/ LoadFile
  \/ LoadString

SpecSourceLoader == InitSourceLoader /\ [][NextSourceLoader]_vars

\* a file was left out of the result because it would exceed the limit
droppedForLimit ==
  \E i \in 1..Len(output[1].console) : output[1].console[i][1] = "would exceed token limit"

\* C27: when the files of a multi-file load exceed the loader's token
\* ceiling, the caller gets a TokenLimitError: no file is dropped for the
\* ceiling from a result that is returned as loaded.
C27_OverBudgetReported ==
  output # <<>> /\ droppedForLimit =>
    /\ ~output[1].returned.ok
    /\ output[1].returned.error = "TokenLimitError"

\* C28: every LoadedSource a SourceLoader with maxTokens = M returns, from
\* loadFile, loadFiles, loadString or loadMarkdownDirectory, has
\* totalTokens <= M, whatever the directory layout.
C28_TotalWithinLimit ==
  output # <<>> /\ output[1].returned.ok =>
    output[1].returned.totalTokens <= input.maxTokens

\* ------------------------------------------------------------------------
\* handlers.ts: handleContextLoad, handleContextQuery, handleContextEvict,
\* handleContextRefresh
\* ------------------------------------------------------------------------
\* The server's state is the record `output`. Shared by all calls: storage
\* (the rows of the caches table), gemini (the caches the Gemini client
\* was asked to create, by name, each with the ttl and system instruction
\* it was created with and whether it has been deleted), clock, and the
\* number of calls handled. Of the call that is running: its position pc,
\* its request, its locals existing, ttl, loadedSource and cacheMetadata,
\* the calls it has made to the Gemini client, and its outcome;
\* storageBefore and clockBefore are what storage and the clock were when
\* the request arrived. deps.usageLogger is not set.

\* a storage that finds no alias
getByAliasNull(storage, alias) == {}

\* storage.getByAlias(alias): SELECT * FROM caches WHERE alias = ?
getByAlias(storage, alias) == { row \in storage : row.alias = alias }

\* a storage whose delete does nothing
deleteByAliasNothing(storage, alias) == storage

\* storage.deleteByAlias(alias): DELETE FROM caches WHERE alias = ?
deleteByAlias(storage, alias) == { row \in storage : row.alias # alias }

\* storage.save(metadata): INSERT ... ON CONFLICT(alias) DO UPDATE; a new
\* row gets created_at = CURRENT_TIMESTAMP, an updated row keeps its own
save(storage, metadata, now) ==
  IF getByAlias(storage, metadata.alias) = {}
  THEN storage \cup {[metadata EXCEPT !.createdAt = now]}
  ELSE { IF row.alias = metadata.alias
         THEN [metadata EXCEPT !.createdAt = row.createdAt]
         ELSE row : row \in storage }

\* a handler for which no cache is ever expired
isExpiredNever(now, expiresAt) == FALSE

\* new Date() > cache.expiresAt
isExpired(now, expiresAt) == now > expiresAt

\* what loadSingleSource returns for a source
loadedFrom(source) ==
  [source |-> source, totalTokens |-> IF source = "/test/old" THEN 100 ELSE 250]

\* Math.floor((existingCache.expiresAt - existingCache.createdAt) / 1000)
previousTtl(cache) == cache.expiresAt - cache.createdAt

\* the number of requests handled
MaxRequests == 2

\* the last tick of the clock
MaxClock == 3

HandlerAliases == {"test-repo", "other"}

\* the tool calls: ttl and systemInstruction are optional; caches are
\* loaded under one alias, and asked for under two
HandlerRequests ==
  [op : {"load"}, alias : {"test-repo"}, source : {{}, {"/test/old"}, {"/test/new"}},
   ttl : {{2}}, systemInstruction : {{}, {"be brief"}}]
  \cup [op : {"query", "evict"}, alias : HandlerAliases, source : {{}}, ttl : {{}},
        systemInstruction : {{}}]
  \cup [op : {"refresh"}, alias : HandlerAliases, source : {{}}, ttl : {{}, {1}},
        systemInstruction : {{}, {"be thorough"}}]

NoRequest == [op |-> "", alias |-> "", source |-> {}, ttl |-> {}, systemInstruction |-> {}]

\* the locals of a call that has just arrived
arrived(request) ==
  [pc |-> request.op, request |-> request, existing |-> {}, ttl |-> 0,
   loadedSource |-> <<>>, cacheMetadata |-> <<>>, calls |-> <<>>, outcome |-> <<>>]

InitHandlers ==
  /\ crawlerIdle
  /\ input = <<>>
  /\ output = [storage |-> {}, gemini |-> <<>>, clock |-> 0, handled |-> 0,
               storageBefore |-> {}, clockBefore |-> 0]
              @@ [arrived(NoRequest) EXCEPT !.pc = "idle"]

\* a tool call arrives
Receive ==
  /\ output.pc = "idle"
  /\ output.handled < MaxRequests
  /\ \E request \in HandlerRequests :
       output' = [storage |-> output.storage, gemini |-> output.gemini,
                  clock |-> output.clock, handled |-> output.handled + 1,
                  storageBefore |-> output.storage, clockBefore |-> output.clock]
                 @@ arrived(request)
  /\ UNCHANGED <<input, crawlerVars>>

\* time passes
Tick ==
  /\ output.clock < MaxClock
  /\ output' = [output EXCEPT !.clock = @ + 1]
  /\ UNCHANGED <<input, crawlerVars>>

\* the call throws
throws(error) ==
  [output EXCEPT !.outcome = <<[ok |-> FALSE, error |-> error]>>, !.pc = "idle"]

\* geminiClient.deleteCache(name) resolves (deleted) or rejects
deleteCache(gemini, name, deleted) ==
  IF deleted THEN [gemini EXCEPT ![name].deleted = TRUE] ELSE gemini

\* handleContextLoad: contextLoadSchema.parse(rawInput) throws when neither
\* source nor sources is given
LoadRejected ==
  /\ output.pc = "load"
  /\ output.request.source = {}
  /\ output' = throws("Either source or sources must be provided")
  /\ UNCHANGED <<input, crawlerVars>>

\* handleContextLoad: existing = await storage.getByAlias(input.alias)
LoadGetExisting ==
  /\ output.pc = "load"
  /\ output.request.source # {}
  /\ LET existing == getByAlias(output.storage, output.request.alias)
     IN \E ttl \in output.request.ttl :
          output' = [output EXCEPT !.existing = existing, !.ttl = ttl,
                                   !.pc = IF existing # {} THEN "load:evict" ELSE "load:sources"]
  /\ UNCHANGED <<input, crawlerVars>>

\* handleContextLoad: deleteCache(existing.name), whose failure is ignored,
\* then storage.deleteByAlias
LoadEvicts ==
  /\ output.pc = "load:evict"
  /\ \E existing \in output.existing, deleted \in BOOLEAN :
       output' = [output EXCEPT !.calls = Append(@, <<"deleteCache", existing.name>>),
                               !.gemini = deleteCache(@, existing.name, deleted),
                               !.storage = deleteByAlias(@, output.request.alias),
                               !.pc = "load:sources"]
  /\ UNCHANGED <<input, crawlerVars>>

\* handleContextLoad: loadSingleSource resolves
LoadSourceLoaded ==
  /\ output.pc = "load:sources"
  /\ \E source \in output.request.source :
       output' = [output EXCEPT !.loadedSource = <<loadedFrom(source)>>,
                               !.pc = "createCache"]
  /\ UNCHANGED <<input, crawlerVars>>

\* handleContextLoad: loadSingleSource rejects
LoadSourceFails ==
  /\ output.pc = "load:sources"
  /\ output' = throws("Failed to load source")
  /\ UNCHANGED <<input, crawlerVars>>

\* handleContextLoad, handleContextRefresh: geminiClient.createCache(content,
\* alias, { ttl, systemInstruction: input.systemInstruction }) resolves with
\* a cache of a new name that expires ttl from now
LoadCreateCache ==
  /\ output.pc = "createCache"
  /\ LET name == Len(output.gemini) + 1
     IN output' = [output EXCEPT
                     !.gemini = Append(@, [ttl |-> output.ttl,
                                           systemInstruction |-> output.request.systemInstruction,
                                           deleted |-> FALSE]),
                     !.calls = Append(@, <<"createCache", name, output.ttl,
                                           output.request.systemInstruction>>),
                     !.cacheMetadata = <<[name |-> name, alias |-> output.request.alias,
                                          source |-> "", tokenCount |-> 0,
                                          createdAt |-> output.clock,
                                          expiresAt |-> output.clock + output.ttl]>>,
                     !.pc = "save"]
  /\ UNCHANGED <<input, crawlerVars>>

\* handleContextLoad, handleContextRefresh: geminiClient.createCache rejects
LoadCreateCacheFails ==
  /\ output.pc = "createCache"
  /\ output' = [throws("createCache") EXCEPT
                  !.calls = Append(@, <<"createCache", 0, output.ttl,
                                        output.request.systemInstruction>>)]
  /\ UNCHANGED <<input, crawlerVars>>

\* handleContextLoad, handleContextRefresh: source and tokenCount are set
\* from the loaded source, then storage.save(cacheMetadata)
LoadSave ==
  /\ output.pc = "save"
  /\ LET cacheMetadata == [output.cacheMetadata[1] EXCEPT
                             !.source = output.loadedSource[1].source,
                             !.tokenCount = output.loadedSource[1].totalTokens]
     IN output' = [output EXCEPT !.cacheMetadata = <<cacheMetadata>>,
                                 !.storage = save(@, cacheMetadata, output.clock),
                                 !.pc = "return"]
  /\ UNCHANGED <<input, crawlerVars>>

\* handleContextLoad, handleContextRefresh: storage.save rejects
LoadSaveFails ==
  /\ output.pc = "save"
  /\ output' = throws("save")
  /\ UNCHANGED <<input, crawlerVars>>

\* handleContextLoad, handleContextRefresh return { success: true, cache:
\* cacheMetadata, ... }
LoadSucceeds ==
  /\ output.pc = "return"
  /\ output' = [output EXCEPT !.outcome = <<[ok |-> TRUE, cache |-> output.cacheMetadata[1]]>>,
                             !.pc = "idle"]
  /\ UNCHANGED <<input, crawlerVars>>

\* handleContextQuery: cache = await storage.getByAlias(input.alias), and
\* CacheNotFoundError when there is none
QueryGet ==
  /\ output.pc = "query"
  /\ LET cache == getByAlias(output.storage, output.request.alias)
     IN output' = IF cache = {}
                  THEN throws("CacheNotFoundError")
                  ELSE [output EXCEPT !.existing = cache, !.pc = "query:check"]
  /\ UNCHANGED <<input, crawlerVars>>

\* handleContextQuery: the cache has expired
QueryExpired ==
  /\ output.pc = "query:check"
  /\ \E cache \in output.existing : isExpired(output.clock, cache.expiresAt)
  /\ output' = [throws("CacheNotFoundError") EXCEPT
                  !.storage = deleteByAlias(@, output.request.alias)]
  /\ UNCHANGED <<input, crawlerVars>>

\* handleContextQuery: geminiClient.queryCache(cache.name, ...) is called
QuerySend ==
  /\ output.pc = "query:check"
  /\ \E cache \in output.existing :
       /\ ~isExpired(output.clock, cache.expiresAt)
       /\ output' = [output EXCEPT !.calls = Append(@, <<"queryCache", cache.name>>),
                                   !.pc = "query:answer"]
  /\ UNCHANGED <<input, crawlerVars>>

\* handleContextQuery returns the client's result
QueryReturns ==
  /\ output.pc = "query:answer"
  /\ output' = [output EXCEPT !.outcome = <<[ok |-> TRUE]>>, !.pc = "idle"]
  /\ UNCHANGED <<input, crawlerVars>>

\* handleContextEvict: cache = await storage.getByAlias(input.alias), and
\* CacheNotFoundError when there is none
EvictGet ==
  /\ output.pc = "evict"
  /\ LET cache == getByAlias(output.storage, output.request.alias)
     IN output' = IF cache = {}
                  THEN throws("CacheNotFoundError")
                  ELSE [output EXCEPT !.existing = cache, !.pc = "evict:delete"]
  /\ UNCHANGED <<input, crawlerVars>>

\* handleContextEvict: deleteCache(cache.name), whose failure is ignored,
\* then storage.deleteByAlias, and { success: true, alias } is returned
EvictDeletes ==
  /\ output.pc = "evict:delete"
  /\ \E cache \in output.existing, deleted \in BOOLEAN :
       output' = [output EXCEPT !.calls = Append(@, <<"deleteCache", cache.name>>),
                               !.gemini = deleteCache(@, cache.name, deleted),
                               !.storage = deleteByAlias(@, output.request.alias),
                               !.outcome = <<[ok |-> TRUE, alias |-> output.request.alias]>>,
                               !.pc = "idle"]
  /\ UNCHANGED <<input, crawlerVars>>

\* handleContextRefresh: existingCache = await storage.getByAlias, and
\* CacheNotFoundError when there is none; ttl = input.ttl ?? the previous one
RefreshGet ==
  /\ output.pc = "refresh"
  /\ LET existing == getByAlias(output.storage, output.request.alias)
     IN output' = IF existing = {}
                  THEN throws("CacheNotFoundError")
                  ELSE [output EXCEPT
                          !.existing = existing,
                          !.ttl = orElse(output.request.ttl,
                                         previousTtl(CHOOSE cache \in existing : TRUE)),
                          !.pc = "refresh:sources"]
  /\ UNCHANGED <<input, crawlerVars>>

\* a refresh that gives up the old cache before it knows the sources load
RefreshSourceFailsEvicting ==
  /\ output.pc = "refresh:sources"
  /\ \E cache \in output.existing :
       output' = [throws("Failed to refresh source") EXCEPT
                    !.calls = Append(@, <<"deleteCache", cache.name>>),
                    !.gemini = deleteCache(@, cache.name, TRUE)]
  /\ UNCHANGED <<input, crawlerVars>>

\* handleContextRefresh: loading a source of the previous cache rejects
RefreshSourceFails ==
  /\ output.pc = "refresh:sources"
  /\ output' = throws("Failed to refresh source")
  /\ UNCHANGED <<input, crawlerVars>>

\* handleContextRefresh: the previous source is loaded again
RefreshSourceLoaded ==
  /\ output.pc = "refresh:sources"
  /\ \E cache \in output.existing :
       output' = [output EXCEPT !.loadedSource = <<loadedFrom(cache.source)>>,
                               !.pc = "refresh:delete"]
  /\ UNCHANGED <<input, crawlerVars>>

\* handleContextRefresh: deleteCache(existingCache.name), whose failure is
\* ignored
RefreshDeleteCache ==
  /\ output.pc = "refresh:delete"
  /\ \E cache \in output.existing, deleted \in BOOLEAN :
       output' = [output EXCEPT !.calls = Append(@, <<"deleteCache", cache.name>>),
                               !.gemini = deleteCache(@, cache.name, deleted),
                               !.pc = "createCache"]
  /\ UNCHANGED <<input, crawlerVars>>

NextHandlers ==
  \/ Receive
  \/ Tick
  \/ LoadRejected
  \/ LoadGetExisting
  \/ LoadEvicts
  \/ LoadSourceLoaded
  \/ LoadSourceFails
  \/ LoadCreateCache
  \/ LoadCreateCacheFails
  \/ LoadSave
  \/ LoadSaveFails
  \/ LoadSucceeds
  \/ QueryGet
  \/ QueryExpired
  \/ QuerySend
  \/ QueryReturns
  \/ EvictGet
  \/ EvictDeletes
  \/ RefreshGet
  \/ RefreshSourceFails
  \/ RefreshSourceLoaded
  \/ RefreshDeleteCache

SpecHandlers == InitHandlers /\ [][NextHandlers]_vars

called(call) == \E i \in 1..Len(output.calls) : output.calls[i] = call

calledWith(method, name) ==
  \E i \in 1..Len(output.calls) :
    output.calls[i][1] = method /\ output.calls[i][2] = name

loadSucceeded ==
  /\ output.pc = "idle"
  /\ output.request.op = "load"
  /\ output.outcome # <<>>
  /\ output.outcome[1].ok

\* C29: when handleContextLoad has succeeded for an alias that had a
\* cache, deleteCache was called with the old cache's name, and storage
\* holds exactly one entry for the alias: the newly created cache, with
\* the source and the token count of what was just loaded.
C29_ReloadEvicts ==
  loadSucceeded =>
    LET alias == output.request.alias
        entries == { row \in output.storage : row.alias = alias }
    IN /\ \A old \in { row \in output.storageBefore : row.alias = alias } :
            /\ called(<<"deleteCache", old.name>>)
            /\ old \notin output.storage
       /\ Cardinality(entries) = 1
       /\ \A row \in entries :
            /\ row.name = output.outcome[1].cache.name
            /\ row.expiresAt = output.outcome[1].cache.expiresAt
            /\ calledWith("createCache", row.name)
            /\ \A other \in output.storageBefore : other.name # row.name
            /\ \E source \in output.request.source :
                 /\ row.source = source
                 /\ row.tokenCount = loadedFrom(source).totalTokens

\* a load of /test/new has succeeded into an alias that held the cache of
\* /test/old
C29_Witness ==
  /\ loadSucceeded
  /\ output.request.alias = "test-repo"
  /\ output.request.source = {"/test/new"}
  /\ \E old \in output.storageBefore :
       /\ old.alias = "test-repo"
       /\ old.source = "/test/old"
       /\ called(<<"deleteCache", old.name>>)
  /\ output.outcome[1].cache.tokenCount = 250

\* the cache of the request's alias had expired when the request arrived
expiredOnArrival ==
  \E cache \in output.storageBefore :
    /\ cache.alias = output.request.alias
    /\ output.clockBefore > cache.expiresAt

\* C30: handleContextQuery on a cache whose expiresAt is in the past never
\* calls queryCache, and ends with the alias removed from storage and
\* CacheNotFoundError; queryCache is only ever called with the name of the
\* cache that storage holds for the alias and that has not expired.
C30_ExpiredNeverQueried ==
  /\ [](output.request.op = "query" /\ expiredOnArrival =>
          /\ \A i \in 1..Len(output.calls) : output.calls[i][1] # "queryCache"
          /\ output.pc = "idle" =>
               /\ output.outcome = <<[ok |-> FALSE, error |-> "CacheNotFoundError"]>>
               /\ getByAlias(output.storage, output.request.alias) = {})
  /\ [][Len(output'.calls) > Len(output.calls)
          /\ output'.calls[Len(output'.calls)][1] = "queryCache" =>
            \E cache \in output.storage :
              /\ cache.alias = output.request.alias
              /\ cache.name = output'.calls[Len(output'.calls)][2]
              /\ output.clock <= cache.expiresAt]_vars

\* a query of an alias whose cache had expired has been answered with
\* CacheNotFoundError and the alias is gone from storage
C30_Witness ==
  /\ output.pc = "idle"
  /\ output.request.op = "query"
  /\ expiredOnArrival
  /\ output.outcome = <<[ok |-> FALSE, error |-> "CacheNotFoundError"]>>
  /\ getByAlias(output.storageBefore, output.request.alias) # {}
  /\ getByAlias(output.storage, output.request.alias) = {}

finished(op) ==
  /\ output.pc = "idle"
  /\ output.request.op = op
  /\ output.outcome # <<>>

\* C31: when handleContextEvict has returned, storage has no entry for the
\* alias, whether or not deleteCache succeeded; for an alias that is not
\* stored it throws CacheNotFoundError, calls nothing and leaves storage
\* as it was.
C31_EvictRemovesEntry ==
  finished("evict") =>
    IF \E row \in output.storageBefore : row.alias = output.request.alias
    THEN /\ output.outcome = <<[ok |-> TRUE, alias |-> output.request.alias]>>
         /\ \A row \in output.storage : row.alias # output.request.alias
         /\ \A row \in output.storageBefore :
              row.alias # output.request.alias => row \in output.storage
    ELSE /\ output.outcome = <<[ok |-> FALSE, error |-> "CacheNotFoundError"]>>
         /\ output.calls = <<>>
         /\ output.storage = output.storageBefore

\* an evict has returned although deleteCache failed: the Gemini cache is
\* still there, the storage entry is gone
C31_Witness ==
  /\ finished("evict")
  /\ output.outcome[1].ok
  /\ \E old \in output.storageBefore :
       /\ old.alias = output.request.alias
       /\ called(<<"deleteCache", old.name>>)
       /\ ~output.gemini[old.name].deleted
  /\ \A row \in output.storage : row.alias # output.request.alias

\* C32: when re-loading the source fails during handleContextRefresh, the
\* call rejects and the existing cache is untouched: neither deleteCache
\* nor createCache was called and storage is as it was.
C32_RefreshFailsGracefully ==
  /\ output.pc = "refresh:sources" => output.calls = <<>>
  /\ finished("refresh") /\ output.loadedSource = <<>> =>
       /\ ~output.outcome[1].ok
       /\ output.calls = <<>>
       /\ output.storage = output.storageBefore

\* a refresh of a stored alias has been rejected with "Failed to refresh
\* source"
C32_Witness ==
  /\ finished("refresh")
  /\ output.outcome = <<[ok |-> FALSE, error |-> "Failed to refresh source"]>>
  /\ getByAlias(output.storage, output.request.alias) # {}
  /\ output.storage = output.storageBefore

\* C33: handleContextRefresh without ttl and without systemInstruction
\* calls createCache with a TTL of the replaced cache's expiresAt minus its
\* createdAt, and with the system instruction the replaced cache was
\* created with.
C33_RefreshKeepsSettings ==
  output.request.op = "refresh" /\ output.request.ttl = {}
    /\ output.request.systemInstruction = {} =>
    \A i \in 1..Len(output.calls) :
      output.calls[i][1] = "createCache" =>
        \A replaced \in output.existing :
          /\ output.calls[i][3] = replaced.expiresAt - replaced.createdAt
          /\ output.calls[i][4] = output.gemini[replaced.name].systemInstruction

\* C36: a handleContextLoad that fails leaves the cache stored under the
\* alias intact: the storage entry is as it was and deleteCache was not
\* called.
C36_FailedLoadKeepsCache ==
  finished("load") /\ ~output.outcome[1].ok =>
    /\ getByAlias(output.storage, output.request.alias)
         = getByAlias(output.storageBefore, output.request.alias)
    /\ \A i \in 1..Len(output.calls) : output.calls[i][1] # "deleteCache"

\* C37: when no call is in progress, every storage entry names a Gemini
\* cache that was created and has not been deleted.
C37_EntriesNameLiveCaches ==
  output.pc = "idle" =>
    \A row \in output.storage :
      /\ row.name \in 1..Len(output.gemini)
      /\ ~output.gemini[row.name].deleted

\* ------------------------------------------------------------------------
\* Two handleContextLoad calls in flight
\* ------------------------------------------------------------------------
\* The server awaits each tool call's handler but starts the next call
\* without waiting for the previous one, so two handlers interleave at
\* their awaits. The call that is running has its locals in `output`, the
\* other call's locals are in `input`; storage, the Gemini caches and the
\* clock are shared.

HandlerLocals ==
  {"pc", "request", "existing", "ttl", "loadedSource", "cacheMetadata", "calls", "outcome"}

shared(state) == [field \in (DOMAIN state) \ HandlerLocals |-> state[field]]

locals(state) == [field \in HandlerLocals |-> state[field]]

ConcurrentLoadRequests ==
  [op : {"load"}, alias : {"test-repo"}, source : {{"/test/old"}, {"/test/new"}},
   ttl : {{2}}, systemInstruction : {{}, {"be brief"}}]

\* both calls have arrived; the alias is not stored
InitConcurrentLoads ==
  /\ crawlerIdle
  /\ \E first \in ConcurrentLoadRequests, second \in ConcurrentLoadRequests :
       /\ output = [storage |-> {}, gemini |-> <<>>, clock |-> 0, handled |-> 2,
                    storageBefore |-> {}, clockBefore |-> 0]
                   @@ arrived(first)
       /\ input = arrived(second)

\* the running call is at an await (or has finished) and the other call
\* goes on
HandlerSwitch ==
  /\ input.pc # "idle"
  /\ output' = shared(output) @@ input
  /\ input' = locals(output)
  /\ UNCHANGED crawlerVars

NextConcurrentLoads ==
  \/ HandlerSwitch
  \/ LoadGetExisting
  \/ LoadEvicts
  \/ LoadSourceLoaded
  \/ LoadSourceFails
  \/ LoadCreateCache
  \/ LoadCreateCacheFails
  \/ LoadSave
  \/ LoadSaveFails
  \/ LoadSucceeds

SpecConcurrentLoads == InitConcurrentLoads /\ [][NextConcurrentLoads]_vars

bothCompleted ==
  /\ output.pc = "idle"
  /\ input.pc = "idle"

bothSucceeded ==
  /\ bothCompleted
  /\ output.outcome[1].ok
  /\ input.outcome[1].ok

\* either call has asked the client to delete the cache
deleteRequested(name) ==
  \/ \E i \in 1..Len(output.calls) : output.calls[i] = <<"deleteCache", name>>
  \/ \E i \in 1..Len(input.calls) : input.calls[i] = <<"deleteCache", name>>

\* C38: once two concurrent handleContextLoad calls for one alias have
\* both completed successfully, storage holds exactly one entry for the
\* alias, and every Gemini cache either call created is the one the entry
\* names or is one that deleteCache was called for.
C38_ConcurrentLoadsLeaveOneCache ==
  bothSucceeded =>
    /\ Cardinality({ row \in output.storage : row.alias = output.request.alias }) = 1
    /\ \A name \in 1..Len(output.gemini) :
         \/ deleteRequested(name)
         \/ \E row \in output.storage : row.name = name

\* ------------------------------------------------------------------------
\* crawler.ts: what the queue holds, and the delay between page fetches
\* ------------------------------------------------------------------------

seedEntry(entry) ==
  /\ entry.score = 100
  /\ entry.depth = 0
  /\ \E i \in 1..Len(config.seedUrls) : entry.url = normalizeUrl(config.seedUrls[i])

discoveredEntry(entry) ==
  /\ ~shouldSkipUrl(entry.url)
  /\ entry.score = scoreLink(entry.url, entry.referrer)
  /\ entry.score >= 20
  /\ entry.score <= 100
  /\ entry.depth >= 1
  /\ \E i \in 1..Len(loadedContent) : loadedContent[i].path = entry.referrer

\* C34: every queue entry is a seed (score 100, depth 0) or a discovered
\* link that shouldSkipUrl lets through, with its score in [20,100] and
\* found on an accepted page; when a page's links are queued, each new
\* entry has the depth of that page plus one.
C34_QueueEntries ==
  /\ [](\A i \in 1..Len(queue) : seedEntry(queue[i]) \/ discoveredEntry(queue[i]))
  /\ [][pc = "loading" =>
          /\ Len(queue') >= Len(queue)
          /\ SubSeq(queue', 1, Len(queue)) = queue
          /\ \A i \in Len(queue) + 1..Len(queue') :
               /\ queue'[i].depth = next.depth + 1
               /\ queue'[i].referrer = next.url]_vars

\* the queue holds a link found on a page that was itself found on a page
C34_Witness ==
  \E i \in 1..Len(queue) :
    /\ queue[i].depth = 2
    /\ discoveredEntry(queue[i])
    /\ queue[i].score < 100

\* a page fetch attempt ends: loadPage settles, or throws before its request
pageAttemptEnds ==
  \/ pc = "loading" /\ pc' # "loading"
  \/ pc = "fetch" /\ pc' \notin {"fetch", "loading"}

\* C35: a page fetch attempt ends in the delay when entries are left in
\* the queue, and at the loop head with no delay when the queue is empty;
\* the delay is left only by waiting it out, and the loop head with an
\* empty queue only by returning; a page is requested only by an iteration
\* that began at the loop head. So between the end of a page fetch attempt
\* and the next page request of the crawl the delay has elapsed, whatever
\* is popped in between.
C35_Politeness ==
  /\ [][pageAttemptEnds =>
          IF Len(queue') > 0 THEN pc' = "delay" ELSE pc' = "loop"]_vars
  /\ [][pc = "delay" => pc' = "loop" /\ fetched' = fetched /\ queue' = queue]_vars
  /\ [][pc = "loop" /\ queue = <<>> => pc' = "done"]_vars
  /\ [][fetched' # fetched => pc = "fetch" /\ pc' = "loading"]_vars
  /\ [][pc' = "fetch" /\ pc # "fetch" => pc \in {"loop", "robots", "robotsLoading"}]_vars
  /\ [][pc' \in {"robots", "robotsLoading"} /\ pc # pc' => pc \in {"loop", "robots"}]_vars
  /\ [][pc' = "loop" /\ pc \notin {"loop", "new", "robots", "robotsLoading", "delay"} =>
          pageAttemptEnds /\ queue' = <<>>]_vars

\* a second page is being fetched after the delay: the seeds were one
\* page given twice, so the entry popped first after the first fetch was
\* already visited and the loop went on without a second delay
C35_Witness ==
  /\ pc = "loading"
  /\ Len(fetched) = 2
  /\ config.seedUrls = <<L_docsSlash, L_docsFrag>>
  /\ fetched[1] = normalizeUrl(L_docsSlash)
  /\ fetched[2] # fetched[1]

\* ------------------------------------------------------------------------
\* docs-crawler.ts: DocsCrawlerAdapter
\* ------------------------------------------------------------------------
\* A URL is its origin, pathname and hash; url.href tells two URLs apart
\* when any of the three differ. A site gives, per pathname, what fetch
\* answers: ok or not, text/html or not, and the links extractLinks finds in
\* the page, in page order. `input` is the site; `output` is the adapter:
\* its visited set and the load() calls made on it, each with its source,
\* the stack of crawlUrl invocations it is suspended in, and its files.

DocsUrl(o, pathname, hash) == [origin |-> o, pathname |-> pathname, hash |-> hash]

D_root == DocsUrl("docs.test", "/", "")
D_a == DocsUrl("docs.test", "/a", "")
D_b == DocsUrl("docs.test", "/b", "")
D_c == DocsUrl("docs.test", "/c", "")
D_bSection == DocsUrl("docs.test", "/b", "#usage")
D_pdf == DocsUrl("docs.test", "/paper.pdf", "")
D_gone == DocsUrl("docs.test", "/gone", "")
D_external == DocsUrl("other.test", "/x", "")

htmlPage(links) == [ok |-> TRUE, html |-> TRUE, links |-> links]

\* the pages all sites share: /c has no links, /paper.pdf is not HTML,
\* /gone answers 404, /x is on another origin
commonPages(pathname) ==
  CASE pathname = "/c" -> htmlPage(<<>>)
    [] pathname = "/paper.pdf" -> [ok |-> TRUE, html |-> FALSE, links |-> <<>>]
    [] pathname = "/x" -> htmlPage(<<D_root>>)
    [] OTHER -> [ok |-> FALSE, html |-> FALSE, links |-> <<>>]

DocsPaths == {"/", "/a", "/b", "/c", "/paper.pdf", "/gone", "/x"}

siteOf(root, a, b) ==
  [pathname \in DocsPaths |->
     CASE pathname = "/" -> htmlPage(root)
       [] pathname = "/a" -> htmlPage(a)
       [] pathname = "/b" -> htmlPage(b)
       [] OTHER -> commonPages(pathname)]

\* the same pages with the links of the start page in either order, a page
\* linked with and without a hash, and links that lead nowhere
DocsSites ==
  { siteOf(<<D_a, D_b>>, <<D_b>>, <<D_c>>),
    siteOf(<<D_b, D_a>>, <<D_b>>, <<D_c>>),
    siteOf(<<D_a, D_bSection, D_b>>, <<D_root>>, <<D_a>>),
    siteOf(<<D_pdf, D_gone, D_external, D_a>>, <<D_c, D_root>>, <<>>) }

DocsSources ==
  [url : {D_root}, maxDepth : {1, 2}, followExternal : BOOLEAN, maxTokens : {3, 900000}]

\* a load() call that has not started
newLoad(source) ==
  [pc |-> "new", source |-> source, stack |-> <<>>, files |-> <<>>, result |-> <<>>]

\* this.visited.has(url.href)
docsVisitedHas(seen, url) == url \in seen

\* crawlUrl up to its first await: the checks, visited.add and fetch
crawlUrl(adapter, call, url, currentDepth) ==
  IF docsVisitedHas(adapter.visited, url) \/ currentDepth > call.source.maxDepth
  THEN [visited |-> adapter.visited, call |-> call]
  ELSE IF ~call.source.followExternal /\ url.origin # call.source.url.origin
  THEN [visited |-> adapter.visited, call |-> call]
  ELSE [visited |-> adapter.visited \cup {url},
        call |-> [call EXCEPT !.stack = Append(@, [url |-> url, depth |-> currentDepth,
                                                   pc |-> "fetch", links |-> <<>>])]]

\* crawlUrl returns: the invocation below goes on, or load() builds its result
returned(call) ==
  LET stack == SubSeq(call.stack, 1, Len(call.stack) - 1)
  IN IF stack # <<>> THEN [call EXCEPT !.stack = stack]
     ELSE IF reduceSum(call.files, 0, "tokenEstimate") > call.source.maxTokens
     THEN [call EXCEPT !.stack = stack, !.pc = "rejected",
                       !.result = <<"TokenLimitError">>]
     ELSE [call EXCEPT !.stack = stack, !.pc = "done",
                       !.result = <<[fileCount |-> Len(call.files),
                                     totalTokens |-> reduceSum(call.files, 0, "tokenEstimate"),
                                     files |-> call.files]>>]

\* load(): visited is cleared and crawlUrl(startUrl, ..., 0, ...) is entered
docsLoad(site, adapter, call) ==
  LET entered == crawlUrl([adapter EXCEPT !.visited = {}],
                          [call EXCEPT !.pc = "crawling"], call.source.url, 0)
  IN IF entered.call.stack = <<>>
     THEN [entered EXCEPT !.call = returned([@ EXCEPT !.stack = <<[pc |-> "none"]>>])]
     ELSE entered

\* crawlUrl after fetch settled: a page that is not ok or not HTML is left
\* out; an HTML page is pushed to files, and its links are crawled when
\* currentDepth < maxDepth
docsFetched(site, adapter, call) ==
  LET frame == call.stack[Len(call.stack)]
      page == site[frame.url.pathname]
  IN IF ~page.ok \/ ~page.html
     THEN [visited |-> adapter.visited, call |-> returned(call)]
     ELSE LET pushed == [call EXCEPT !.files = Append(@, [path |-> frame.url.pathname,
                                                          tokenEstimate |-> 1])]
          IN IF frame.depth < call.source.maxDepth
             THEN [visited |-> adapter.visited,
                   call |-> [pushed EXCEPT !.stack[Len(call.stack)].pc = "links",
                                           !.stack[Len(call.stack)].links = page.links]]
             ELSE [visited |-> adapter.visited, call |-> returned(pushed)]

\* the loop over links: crawlUrl(link, ..., currentDepth + 1, ...) is
\* entered for the next link, or the loop is over and crawlUrl returns
docsNextLink(site, adapter, call) ==
  LET frame == call.stack[Len(call.stack)]
  IN IF frame.links = <<>>
     THEN [visited |-> adapter.visited, call |-> returned(call)]
     ELSE crawlUrl(adapter,
                   [call EXCEPT !.stack[Len(call.stack)].links = Tail(frame.links)],
                   Head(frame.links), frame.depth + 1)

\* what a call does from one await to the next
docsStep(site, adapter, call) ==
  IF call.pc = "new" THEN docsLoad(site, adapter, call)
  ELSE IF call.stack[Len(call.stack)].pc = "fetch" THEN docsFetched(site, adapter, call)
  ELSE docsNextLink(site, adapter, call)

InitDocs ==
  /\ crawlerIdle
  /\ input \in DocsSites
  /\ \E source \in DocsSources :
       output = [visited |-> {}, calls |-> <<newLoad(source)>>]

\* the adapter after call c has made its step
stepped(c, after) ==
  [visited |-> after.visited, calls |-> [output.calls EXCEPT ![c] = after.call]]

DocsLoad ==
  /\ \E c \in DOMAIN output.calls :
       /\ output.calls[c].pc = "new"
       /\ output' = stepped(c, docsLoad(input, output, output.calls[c]))
  /\ UNCHANGED <<input, crawlerVars>>

DocsFetched ==
  /\ \E c \in DOMAIN output.calls :
       /\ output.calls[c].pc = "crawling"
       /\ output.calls[c].stack[Len(output.calls[c].stack)].pc = "fetch"
       /\ output' = stepped(c, docsFetched(input, output, output.calls[c]))
  /\ UNCHANGED <<input, crawlerVars>>

DocsNextLink ==
  /\ \E c \in DOMAIN output.calls :
       /\ output.calls[c].pc = "crawling"
       /\ output.calls[c].stack[Len(output.calls[c].stack)].pc = "links"
       /\ output' = stepped(c, docsNextLink(input, output, output.calls[c]))
  /\ UNCHANGED <<input, crawlerVars>>

NextDocs ==
  \/ DocsLoad
  \/ DocsFetched
  \/ DocsNextLink

SpecDocs == InitDocs /\ [][NextDocs]_vars

\* two load() calls on one adapter
InitDocsConcurrent ==
  /\ crawlerIdle
  /\ input \in DocsSites
  /\ \E first \in DocsSources, second \in DocsSources :
       /\ first.maxTokens = 900000
       /\ second.maxTokens = 900000
       /\ ~first.followExternal
       /\ ~second.followExternal
       /\ output = [visited |-> {}, calls |-> <<newLoad(first), newLoad(second)>>]

SpecDocsConcurrent == InitDocsConcurrent /\ [][NextDocs]_vars

\* the HTML pages of the start URL's origin within `depth` links of url
RECURSIVE reachable(_, _, _)
reachable(site, url, depth) ==
  IF ~site[url.pathname].ok \/ ~site[url.pathname].html \/ url.origin # D_root.origin
  THEN {}
  ELSE {url.pathname}
         \cup (IF depth = 0 THEN {}
               ELSE UNION { reachable(site, site[url.pathname].links[i], depth - 1) :
                              i \in 1..Len(site[url.pathname].links) })

pathsOf(files) == { files[i].path : i \in 1..Len(files) }

\* C40: with followExternal = false, load returns every same-origin HTML
\* page within maxDepth links of the start URL, whatever the order of the
\* links on the pages, and no page twice.
C40_ReturnsAllReachable ==
  \A c \in DOMAIN output.calls :
    output.calls[c].pc = "done" /\ ~output.calls[c].source.followExternal =>
      LET files == output.calls[c].result[1].files
      IN /\ pathsOf(files) = reachable(input, output.calls[c].source.url,
                                      output.calls[c].source.maxDepth)
         /\ \A i, j \in 1..Len(files) : i # j => files[i].path # files[j].path

\* the call runs alone on an adapter of its own
RECURSIVE alone(_, _, _)
alone(site, adapter, call) ==
  IF call.pc \in {"done", "rejected"} THEN call
  ELSE LET after == docsStep(site, adapter, call)
       IN alone(site, [adapter EXCEPT !.visited = after.visited], after.call)

\* C39: two load() calls running concurrently on one adapter each return
\* what they return when run alone.
C39_ConcurrentLoadsIndependent ==
  \A c \in DOMAIN output.calls :
    output.calls[c].pc = "done" =>
      output.calls[c].result
        = alone(input, [visited |-> {}], newLoad(output.calls[c].source)).result

====
